---- MODULE Spec2Model ----
(***************************************************************************)
(* Verification model of the dorado read pipeline:                         *)
(*   - SubreadTaggerNode (read_pipeline/SubreadTaggerNode.cpp): worker     *)
(*     threads, the check_duplex_thread reconciliation loop and            *)
(*     terminate_impl;                                                     *)
(*   - StereoDuplexEncoderNode (read_pipeline/StereoDuplexEncoderNode.cpp) *)
(*     fed by DataLoader::load_reads (data_loader/DataLoader.cpp).         *)
(* Each node is checked under its own specification; the variables of the  *)
(* other node stay at their initial values.                                *)
(***************************************************************************)
EXTENDS Integers, Sequences, FiniteSets, TLC

(***************************************************************************)
(* Bounds of the model.                                                    *)
(***************************************************************************)
NumTags == 2
MaxSplit == 2
MaxPairs == 1
NumWorkers == 2
QueueCap == 2
MaxReads == 4
NumPairs == 2
MaxRestarts == 1
NumTestReads == 3
MaxFiles == 2
MaxBatches == 2
MaxRows == 2
MaxChannel == 1
MaxMaxReads == 2
MaxMoves == 2
RawSlack == 1
MaxSeqLen == 4
MaxMotifLen == 2

Tags == 1..NumTags
Workers == 1..NumWorkers

(***************************************************************************)
(* Generic helpers: maps with a dynamic key set (std::map /                *)
(* std::unordered_map) are functions whose DOMAIN is the set of keys.      *)
(***************************************************************************)
EmptyMap == [k \in {} |-> 0]

HasKey(m, k) == k \in DOMAIN m

Put(m, k, v) == [x \in (DOMAIN m) \cup {k} |-> IF x = k THEN v ELSE m[x]]

Erase(m, k) == [x \in (DOMAIN m) \ {k} |-> m[x]]

Lookup(m, k, default) == IF k \in DOMAIN m THEN m[k] ELSE default

RECURSIVE SeqSum(_)
SeqSum(s) == IF s = <<>> THEN 0 ELSE Head(s) + SeqSum(Tail(s))

SetMin(S) == CHOOSE x \in S : \A y \in S : x <= y

UnlockSkipped(thread) == thread

\* a mutex after the unlock() of the std::unique_lock that thread holds on it:
\* free (a mutex is 0, or the thread holding it)
Unlock(thread) == 0

QueueHasRoomAlways(queue) == TRUE

\* push_message on a node's input queue goes through only while the queue
\* holds fewer messages than its capacity; the pusher waits otherwise
QueueHasRoom(queue) == Len(queue) < QueueCap

ExhaustedOnClose(queue, terminated) == terminated

\* a pop (get_input_message, try_pop) returns false, without blocking, when the
\* queue is terminated and holds no message
Exhausted(queue, terminated) == terminated /\ queue = <<>>

Count(s, P(_)) == Cardinality({i \in 1..Len(s) : P(s[i])})

(***************************************************************************)
(* Reads handled by SubreadTaggerNode.  A family (all reads of one tag) is  *)
(* described by its shape: the number of simplex fragments (split_count),  *)
(* the num_duplex_candidate_pairs of each fragment (the fragments are      *)
(* numbered so that the counts do not increase), and the number of duplex  *)
(* reads of the tag.  The upstream may stop before it has pushed them all. *)
(* Tag 1 has up to MaxSplit fragments, every other tag has one fragment.   *)
(* The field family names the physical source read a record derives from   *)
(* (it stands for the record's read id).                                   *)
(* The field arr is a history field, set when a worker ingests the read:   *)
(* the number of duplex reads of the tag buffered at that moment (for a    *)
(* duplex read this is its position in the tag's list).                    *)
(***************************************************************************)
Shapes ==
    { sh \in [split : 1..MaxSplit,
              ndcp : UNION { [1..s -> 0..MaxPairs] : s \in 1..MaxSplit },
              nd : 0..(MaxSplit * MaxPairs)] :
        /\ DOMAIN sh.ndcp = 1..sh.split
        /\ \A i \in 1..(sh.split - 1) : sh.ndcp[i] >= sh.ndcp[i + 1]
        /\ sh.nd = SeqSum(sh.ndcp) }

Families == { f \in [Tags -> Shapes] : \A t \in Tags \ {1} : f[t].split = 1 }

NoRead == [tag |-> 0, is_duplex |-> FALSE, idx |-> 0, split_count |-> 0,
           subread_id |-> 0, ndcp |-> 0, arr |-> 0, family |-> 0]

SimplexRead(f, t, i) ==
    [tag |-> t, is_duplex |-> FALSE, idx |-> i, split_count |-> f[t].split,
     subread_id |-> i - 1, ndcp |-> f[t].ndcp[i], arr |-> 0, family |-> t]

DuplexRead(t, j) ==
    [tag |-> t, is_duplex |-> TRUE, idx |-> j, split_count |-> 0,
     subread_id |-> 0, ndcp |-> 0, arr |-> 0, family |-> t]

\* a message that is not a read (another alternative of the Message variant)
OtherMessage == [NoRead EXCEPT !.tag = -1]

\* is_read_message(message)
IsReadMessage(message) == message /= OtherMessage

FamilyReads(f, t) ==
    { SimplexRead(f, t, i) : i \in 1..f[t].split } \cup
    { DuplexRead(t, j) : j \in 1..f[t].nd }

AllReads(f) == UNION { FamilyReads(f, t) : t \in Tags }

\* the record r when the upstream gave it the read_tag t
WithTag(r, t) == [r EXCEPT !.tag = t]

VARIABLES
    fam,                    \* the shape of each tag's family (input)
    pushed,                 \* reads the upstream has pushed so far
    in_queue,               \* m_work_queue of the node
    in_terminated,          \* the input queue has been terminated
    w_pc, w_msg, w_ext,     \* worker threads: position, message, extracted group
    m_subread_groups,       \* tag -> simplex fragments collected so far
    m_full_subread_groups,  \* tag -> (complete group, num_expected_duplex)
    m_duplex_reads,         \* tag -> duplex reads in arrival order
    m_updated_read_tags,    \* tags to reconcile
    m_subread_groups_mutex, \* 0, or the thread holding it
    m_duplex_reads_mutex,   \* 0, or the thread holding it
    m_terminate,            \* std::atomic<bool>
    c_pc, c_sub, c_dup, c_base, c_count, c_index,   \* check_duplex_thread
    t_pc,                   \* the thread running terminate_impl and restart
    restarts,               \* history: for each restart(), the messages pushed before it
    sink                    \* tag -> the messages of the tag sent to the sink, in order

tagger_vars ==
    <<fam, pushed, in_queue, in_terminated, w_pc, w_msg, w_ext,
      m_subread_groups, m_full_subread_groups, m_duplex_reads,
      m_updated_read_tags, m_subread_groups_mutex, m_duplex_reads_mutex,
      m_terminate, c_pc, c_sub, c_dup, c_base, c_count, c_index, t_pc,
      restarts, sink>>

(***************************************************************************)
(* StereoDuplexEncoderNode, its upstream DataLoader::load_reads and its    *)
(* sink.  Read ids are numbers: pair p has template 2p-1 and complement    *)
(* 2p; the id 2*NumPairs+1 belongs to no pair.  The nodes between the      *)
(* loader and the encoder forward every read and the termination, so the   *)
(* loader's read sink is modelled as the encoder's work queue.             *)
(***************************************************************************)
VARIABLES
    seq_len_c,         \* pair -> length of the complement's sequence (input)
    align_span,             \* pair -> trimmed alignment positions of the pair (input)
    l_pc,                   \* DataLoader::load_reads: position
    l_loaded,               \* ids of the reads load_reads has pushed
    e_queue,                \* m_work_queue of the encoder node
    e_terminated,           \* the encoder's work queue has been terminated
    e_pc, e_read, e_partner_id, e_is_template, e_partner_read,  \* worker threads
    l_again,                \* ids of the reads delivered a second time
    read_cache,             \* read id -> cached read
    m_read_cache_mutex,     \* 0, or the worker holding it
    taken,                  \* history: read id -> times the read was taken out of
                            \* read_cache as the partner of an arriving read
    m_num_worker_threads,   \* std::atomic<int>, counts the running workers
    sink_log,               \* push_message and terminate calls on m_sink, in order
                            \* (by is a history field: the caller of terminate, or
                            \* the role of the read the pushing worker had popped)
    d_pc                    \* ~StereoDuplexEncoderNode: position

stereo_vars ==
    <<seq_len_c, align_span, l_pc, l_loaded, l_again, e_queue, e_terminated, e_pc,
      e_read, e_partner_id, e_is_template, e_partner_read, read_cache,
      m_read_cache_mutex, taken, m_num_worker_threads, sink_log, d_pc>>

(***************************************************************************)
(* The pipeline builders of Pipelines.cpp: create_simplex_pipeline and      *)
(* create_stereo_duplex_pipeline add nodes and edges to a                   *)
(* PipelineDescriptor.  A node handle is the position of the node in the    *)
(* descriptor.                                                              *)
(***************************************************************************)
VARIABLES
    g_fn,                   \* the builder that is called
    g_args,                 \* its arguments (input)
    g_pc,                   \* position in the builder
    g_nodes,                \* pipeline_desc: the nodes, in the order they were added
    g_edges,                \* pipeline_desc: the pairs <<node, sink of the node>>
    g_h                     \* the builder's local node handles

graph_vars == <<g_fn, g_args, g_pc, g_nodes, g_edges, g_h>>

(***************************************************************************)
(* DuplexReadTaggingNode under its test: the test pushes reads, then resets *)
(* the pipeline, which terminates the node; the node's one worker passes    *)
(* the reads on to the sink.                                                *)
(***************************************************************************)
VARIABLES
    dt_pushed,              \* the reads the test has pushed
    dt_queue,               \* the node's input queue
    dt_terminated,          \* the input queue has been terminated
    dt_pc,                  \* the worker: position
    m_duplex_parents,       \* read id -> held read flagged as a duplex parent
    m_parents_wanted,       \* ids named by a duplex read, parent not seen yet
    m_parents_processed,    \* ids of the parents already sent on
    messages                \* the reads received by the sink, in order

tagging_vars ==
    <<dt_pushed, dt_queue, dt_terminated, dt_pc, m_duplex_parents, m_parents_wanted,
      m_parents_processed, messages>>

(***************************************************************************)
(* DataLoader::load_reads and the loaders of one file it calls.  The        *)
(* directory is a list of files; a file has an extension and batches of     *)
(* rows, a row is a read, given by its channel.                             *)
(***************************************************************************)
VARIABLES
    dl_path,                \* what the path names: nothing, a file, a directory (input)
    dl_order,               \* traversal_order (input)
    dl_files,               \* the entries of the directory, in iteration order (input)
    dl_max_reads,           \* the constructor's max_reads (input)
    dl_read_list,           \* the constructor's read_list (input)
    dl_pc,                  \* position in load_reads and its callees
    dl_channel,             \* BY_CHANNEL: the loop variable channel
    dl_entry,               \* the directory iterator: number of the current entry
    dl_batch,               \* batch_index of the file loader
    dl_row,                 \* load_fast5_reads_from_file: the loop variable i
    dl_futures,             \* reads of the current batch not pushed yet
    m_max_channel,          \* set by load_read_channels
    m_loaded_read_count,    \* incremented after every push_message
    dl_terminated           \* number of m_read_sink.terminate() calls

loader_vars ==
    <<dl_path, dl_order, dl_files, dl_max_reads, dl_read_list, dl_pc, dl_channel,
      dl_entry, dl_batch, dl_row, dl_futures, m_max_channel, m_loaded_read_count,
      dl_terminated>>

node_vars == <<tagger_vars, stereo_vars, graph_vars, tagging_vars>>

(***************************************************************************)
(* stereo_internal::stereo_encode: the walk along the alignment columns.    *)
(* The cursors are those of the source (0-based).                           *)
(***************************************************************************)
VARIABLES
    se_template_moves,          \* template_read->moves (input)
    se_complement_moves,        \* complement_read->moves (input)
    se_template_raw_size,       \* template_read->raw_data.size(0) (input)
    se_complement_raw_size,     \* complement_read->raw_data.size(0) (input)
    se_pc,                      \* position in stereo_encode
    target_cursor,
    query_cursor,
    template_signal_cursor,
    complement_signal_cursor,
    stereo_global_cursor,
    se_markers,                 \* positions written in the move-table row, in order
    se_column,                  \* history: the column walked last
    se_output_size              \* size(1) of the tensor tmp

encode_vars ==
    <<se_template_moves, se_complement_moves, se_template_raw_size,
      se_complement_raw_size, se_pc, target_cursor, query_cursor,
      template_signal_cursor, complement_signal_cursor, stereo_global_cursor,
      se_markers, se_column, se_output_size>>

(***************************************************************************)
(* RemoraCaller::get_motif_hits                                             *)
(***************************************************************************)
VARIABLES
    mh_seq,                     \* seq (input)
    mh_motif,                   \* m_params.motif (input)
    mh_motif_offset,            \* m_params.motif_offset (input)
    mh_pc,                      \* position in get_motif_hits
    search_pos,
    context_hits

motif_vars == <<mh_seq, mh_motif, mh_motif_offset, mh_pc, search_pos, context_hits>>

kernel_vars == <<loader_vars, encode_vars, motif_vars>>

vars == <<node_vars, kernel_vars>>

CheckerId == NumWorkers + 1

(***************************************************************************)
(* Pure pieces of SubreadTaggerNode.                                       *)
(***************************************************************************)
\* worker_thread: subreads.size() != split_count decides "group not full yet"
GroupFull(subreads, split_count) == Len(subreads) = split_count

\* worker_thread: std::accumulate over num_duplex_candidate_pairs
NumExpectedDuplex(subreads) == SeqSum([i \in 1..Len(subreads) |-> subreads[i].ndcp])

AfterGroupFullAlwaysWaits(num_expected_duplex) == "full"

\* worker_thread: a full group with num_expected_duplex == 0 is sent at once,
\* any other full group is moved to m_full_subread_groups
AfterGroupFull(num_expected_duplex) == IF num_expected_duplex = 0 THEN "send" ELSE "full"

\* m_updated_read_tags.insert(read_tag)
MarkUpdated(tags, t) == tags \cup {t}

FamilyReadyAtMost(duplex_reads, num_expected_duplex) == Len(duplex_reads) <= num_expected_duplex

\* check_duplex_thread: duplex_reads.size() != num_expected_duplex decides "wait"
FamilyReady(duplex_reads, num_expected_duplex) == Len(duplex_reads) = num_expected_duplex

SubreadCountSimplexOnly(base, duplex_reads) == base

\* check_duplex_thread: subread_count = base + extracted_duplex_reads.size()
SubreadCount(base, duplex_reads) == base + Len(duplex_reads)

DuplexSubreadIdFromOne(base, index) == base + index + 1

\* check_duplex_thread: subread_id = base + index++
DuplexSubreadId(base, index) == base + index

ExtractDuplexReadsKept(duplex_reads_map, read_tag) == duplex_reads_map

\* check_duplex_thread: m_duplex_reads.erase(read_tag), in the critical section
\* that erases the tag from m_full_subread_groups
ExtractDuplexReads(duplex_reads_map, read_tag) == Erase(duplex_reads_map, read_tag)

StartThreadsTerminateKept(terminate) == terminate

\* start_threads: m_terminate.store(false)
StartThreadsTerminate(terminate) == FALSE

EmittedSimplexRenumbered(subread, subread_count, position) ==
    [subread EXCEPT !.split_count = subread_count, !.subread_id = position]

\* check_duplex_thread, first loop: subread->read_common.split_count =
\* subread_count is the only assignment to the fragment (position is the
\* fragment's place in extracted_subreads, which the loop does not use)
EmittedSimplex(subread, subread_count, position) ==
    [subread EXCEPT !.split_count = subread_count]

\* check_duplex_thread, second loop: split_count = subread_count and
\* subread_id = base + index++ are the only assignments to the duplex read
EmittedDuplex(duplex_read, subread_count, base, index) ==
    [duplex_read EXCEPT !.split_count = subread_count,
                        !.subread_id = DuplexSubreadId(base, index)]

DuplexLoopDueAlways(subreads) == TRUE

\* check_duplex_thread: the loop over extracted_duplex_reads starts when the
\* loop over extracted_subreads has sent its last fragment
DuplexLoopDue(subreads) == subreads = <<>>

WorkersJoinedSkipped(pcs) == TRUE

\* terminate_impl: the loop of joins over m_worker_threads has returned
WorkersJoined(pcs) == \A w \in Workers : pcs[w] = "done"

NotifyOneDropped(pc) == pc

\* m_check_duplex_cv.notify_one(): wakes check_duplex_thread when it is blocked
\* in wait; the notification is lost otherwise.
NotifyOne(pc) == IF pc = "waiting" THEN "lock" ELSE pc

\* the predicate of m_check_duplex_cv.wait
WaitPredicate(tags, terminate) == tags # {} \/ terminate

(***************************************************************************)
(* Initial state: the node is constructed (start_threads has run), nothing *)
(* has been pushed.                                                        *)
(***************************************************************************)
TaggerInit ==
    /\ fam \in Families
    /\ pushed = {}
    /\ in_queue = <<>>
    /\ in_terminated = FALSE
    /\ w_pc = [w \in Workers |-> "pop"]
    /\ w_msg = [w \in Workers |-> NoRead]
    /\ w_ext = [w \in Workers |-> <<>>]
    /\ m_subread_groups = EmptyMap
    /\ m_full_subread_groups = EmptyMap
    /\ m_duplex_reads = EmptyMap
    /\ m_updated_read_tags = {}
    /\ m_subread_groups_mutex = 0
    /\ m_duplex_reads_mutex = 0
    /\ m_terminate = FALSE
    /\ c_pc = "loop"
    /\ c_sub = <<>>
    /\ c_dup = <<>>
    /\ c_base = 0
    /\ c_count = 0
    /\ c_index = 0
    /\ t_pc = "idle"
    /\ restarts = <<>>
    /\ sink = [t \in Tags |-> <<>>]

(***************************************************************************)
(* Upstream: pushes a read of some family into the input queue (at most    *)
(* MaxReads reads in all); blocks while the queue is full; pushes nothing   *)
(* once the queue is terminated.                                           *)
(***************************************************************************)
Push(r) ==
    /\ r \notin pushed
    /\ Cardinality(pushed) < MaxReads
    /\ ~in_terminated
    /\ QueueHasRoom(in_queue)
    /\ in_queue' = Append(in_queue, r)
    /\ pushed' = pushed \cup {r}
    /\ UNCHANGED <<kernel_vars, graph_vars, tagging_vars, stereo_vars, fam, restarts, in_terminated, w_pc, w_msg, w_ext, m_subread_groups,
                   m_full_subread_groups, m_duplex_reads, m_updated_read_tags,
                   m_subread_groups_mutex, m_duplex_reads_mutex, m_terminate,
                   c_pc, c_sub, c_dup, c_base, c_count, c_index, t_pc, sink>>

\* the upstream pushes a message that is not a read
PushOther ==
    /\ OtherMessage \notin pushed
    /\ Cardinality(pushed) < MaxReads
    /\ ~in_terminated
    /\ QueueHasRoom(in_queue)
    /\ in_queue' = Append(in_queue, OtherMessage)
    /\ pushed' = pushed \cup {OtherMessage}
    /\ UNCHANGED <<kernel_vars, graph_vars, tagging_vars, stereo_vars, fam, restarts, in_terminated, w_pc, w_msg, w_ext,
                   m_subread_groups, m_full_subread_groups, m_duplex_reads,
                   m_updated_read_tags, m_subread_groups_mutex,
                   m_duplex_reads_mutex, m_terminate, c_pc, c_sub, c_dup, c_base,
                   c_count, c_index, t_pc, sink>>

(***************************************************************************)
(* SubreadTaggerNode::worker_thread                                        *)
(***************************************************************************)
\* get_input_message returns a message; a message that is not a read is
\* logged (spdlog::warn) and the loop continues with the next message
WorkerPop(w) ==
    /\ w_pc[w] = "pop"
    /\ in_queue # <<>>
    /\ w_msg' = [w_msg EXCEPT ![w] = Head(in_queue)]
    /\ in_queue' = Tail(in_queue)
    /\ w_pc' = [w_pc EXCEPT ![w] = IF IsReadMessage(Head(in_queue)) THEN "have" ELSE "pop"]
    /\ UNCHANGED <<kernel_vars, graph_vars, tagging_vars, stereo_vars, fam, restarts, pushed, in_terminated, w_ext, m_subread_groups,
                   m_full_subread_groups, m_duplex_reads, m_updated_read_tags,
                   m_subread_groups_mutex, m_duplex_reads_mutex, m_terminate,
                   c_pc, c_sub, c_dup, c_base, c_count, c_index, t_pc, sink>>

\* get_input_message returns false: the queue is terminated and empty
WorkerExit(w) ==
    /\ w_pc[w] = "pop"
    /\ Exhausted(in_queue, in_terminated)
    /\ w_pc' = [w_pc EXCEPT ![w] = "done"]
    /\ UNCHANGED <<kernel_vars, graph_vars, tagging_vars, stereo_vars, fam, restarts, pushed, in_queue, in_terminated, w_msg, w_ext,
                   m_subread_groups, m_full_subread_groups, m_duplex_reads,
                   m_updated_read_tags, m_subread_groups_mutex,
                   m_duplex_reads_mutex, m_terminate, c_pc, c_sub, c_dup,
                   c_base, c_count, c_index, t_pc, sink>>

\* a duplex read: appended to m_duplex_reads[tag] under m_duplex_reads_mutex
WorkerDuplex(w) ==
    /\ w_pc[w] = "have"
    /\ w_msg[w].is_duplex
    /\ m_duplex_reads_mutex = 0
    /\ LET t == w_msg[w].tag
           old == Lookup(m_duplex_reads, t, <<>>)
       IN /\ m_duplex_reads' =
                Put(m_duplex_reads, t, Append(old, [w_msg[w] EXCEPT !.arr = Len(old)]))
          /\ m_updated_read_tags' = MarkUpdated(m_updated_read_tags, t)
    /\ w_pc' = [w_pc EXCEPT ![w] = "notify"]
    /\ w_msg' = [w_msg EXCEPT ![w] = NoRead]
    /\ UNCHANGED <<kernel_vars, graph_vars, tagging_vars, stereo_vars, fam, restarts, pushed, in_queue, in_terminated, w_ext, m_subread_groups,
                   m_full_subread_groups, m_subread_groups_mutex,
                   m_duplex_reads_mutex, m_terminate, c_pc, c_sub, c_dup,
                   c_base, c_count, c_index, t_pc, sink>>

\* a simplex read: appended to its group under m_subread_groups_mutex; a group
\* that reaches split_count is extracted and the mutex released
WorkerSimplex(w) ==
    /\ w_pc[w] = "have"
    /\ ~w_msg[w].is_duplex
    /\ m_subread_groups_mutex = 0
    /\ LET t == w_msg[w].tag
           read == [w_msg[w] EXCEPT !.arr = Len(Lookup(m_duplex_reads, t, <<>>))]
           subreads == Append(Lookup(m_subread_groups, t, <<>>), read)
       IN IF ~GroupFull(subreads, w_msg[w].split_count)
          THEN /\ m_subread_groups' = Put(m_subread_groups, t, subreads)
               /\ w_pc' = [w_pc EXCEPT ![w] = "pop"]
               /\ w_msg' = [w_msg EXCEPT ![w] = NoRead]
               /\ w_ext' = w_ext
               /\ m_subread_groups_mutex' = 0
          ELSE /\ m_subread_groups' = Erase(m_subread_groups, t)
               /\ m_subread_groups_mutex' = Unlock(w)
               /\ w_ext' = [w_ext EXCEPT ![w] = subreads]
               /\ w_msg' = w_msg
               /\ w_pc' = [w_pc EXCEPT ![w] = AfterGroupFull(NumExpectedDuplex(subreads))]
    /\ UNCHANGED <<kernel_vars, graph_vars, tagging_vars, stereo_vars, fam, restarts, pushed, in_queue, in_terminated, m_full_subread_groups,
                   m_duplex_reads, m_updated_read_tags,
                   m_duplex_reads_mutex, m_terminate, c_pc, c_sub, c_dup,
                   c_base, c_count, c_index, t_pc, sink>>

\* num_expected_duplex == 0: send_message_to_sink for each fragment, then continue
WorkerSend(w) ==
    /\ w_pc[w] = "send"
    /\ sink' = [sink EXCEPT ![Head(w_ext[w]).tag] = Append(@, Head(w_ext[w]))]
    /\ w_ext' = [w_ext EXCEPT ![w] = Tail(w_ext[w])]
    /\ IF Tail(w_ext[w]) = <<>>
       THEN /\ w_pc' = [w_pc EXCEPT ![w] = "pop"]
            /\ w_msg' = [w_msg EXCEPT ![w] = NoRead]
       ELSE UNCHANGED <<w_pc, w_msg>>
    /\ UNCHANGED <<kernel_vars, graph_vars, tagging_vars, stereo_vars, fam, restarts, pushed, in_queue, in_terminated, m_subread_groups,
                   m_full_subread_groups, m_duplex_reads, m_updated_read_tags,
                   m_subread_groups_mutex, m_duplex_reads_mutex, m_terminate,
                   c_pc, c_sub, c_dup, c_base, c_count, c_index, t_pc>>

\* num_expected_duplex > 0: the group waits in m_full_subread_groups, under
\* m_duplex_reads_mutex
WorkerFull(w) ==
    /\ w_pc[w] = "full"
    /\ m_duplex_reads_mutex = 0
    /\ LET t == w_msg[w].tag
       IN /\ m_full_subread_groups' =
                Put(m_full_subread_groups, t,
                    [subreads |-> w_ext[w],
                     num_expected_duplex |-> NumExpectedDuplex(w_ext[w])])
          /\ m_updated_read_tags' = MarkUpdated(m_updated_read_tags, t)
    /\ w_ext' = [w_ext EXCEPT ![w] = <<>>]
    /\ w_msg' = [w_msg EXCEPT ![w] = NoRead]
    /\ w_pc' = [w_pc EXCEPT ![w] = "notify"]
    /\ UNCHANGED <<kernel_vars, graph_vars, tagging_vars, stereo_vars, fam, restarts, pushed, in_queue, in_terminated, m_subread_groups,
                   m_duplex_reads, m_subread_groups_mutex, m_duplex_reads_mutex,
                   m_terminate, c_pc, c_sub, c_dup, c_base, c_count, c_index,
                   t_pc, sink>>

\* m_check_duplex_cv.notify_one() at the end of the loop body
WorkerNotify(w) ==
    /\ w_pc[w] = "notify"
    /\ c_pc' = NotifyOne(c_pc)
    /\ w_pc' = [w_pc EXCEPT ![w] = "pop"]
    /\ UNCHANGED <<kernel_vars, graph_vars, tagging_vars, stereo_vars, fam, restarts, pushed, in_queue, in_terminated, w_msg, w_ext,
                   m_subread_groups, m_full_subread_groups, m_duplex_reads,
                   m_updated_read_tags, m_subread_groups_mutex,
                   m_duplex_reads_mutex, m_terminate, c_sub, c_dup, c_base,
                   c_count, c_index, t_pc, sink>>

(***************************************************************************)
(* SubreadTaggerNode::check_duplex_thread                                  *)
(***************************************************************************)
\* while (!m_terminate.load())
CheckLoop ==
    /\ c_pc = "loop"
    /\ c_pc' = IF m_terminate THEN "done" ELSE "lock"
    /\ UNCHANGED <<kernel_vars, graph_vars, tagging_vars, stereo_vars, fam, restarts, pushed, in_queue, in_terminated, w_pc, w_msg, w_ext,
                   m_subread_groups, m_full_subread_groups, m_duplex_reads,
                   m_updated_read_tags, m_subread_groups_mutex,
                   m_duplex_reads_mutex, m_terminate, c_sub, c_dup, c_base,
                   c_count, c_index, t_pc, sink>>

\* std::unique_lock lock(m_duplex_reads_mutex), and the re-acquisition of the
\* mutex when wait is woken
CheckLock ==
    /\ c_pc = "lock"
    /\ m_duplex_reads_mutex = 0
    /\ m_duplex_reads_mutex' = CheckerId
    /\ c_pc' = "pred"
    /\ UNCHANGED <<kernel_vars, graph_vars, tagging_vars, stereo_vars, fam, restarts, pushed, in_queue, in_terminated, w_pc, w_msg, w_ext,
                   m_subread_groups, m_full_subread_groups, m_duplex_reads,
                   m_updated_read_tags, m_subread_groups_mutex, m_terminate,
                   c_sub, c_dup, c_base, c_count, c_index, t_pc, sink>>

\* wait(lock, pred) evaluates the predicate with the mutex held
CheckPred ==
    /\ c_pc = "pred"
    /\ c_pc' = IF WaitPredicate(m_updated_read_tags, m_terminate) THEN "work" ELSE "block"
    /\ UNCHANGED <<kernel_vars, graph_vars, tagging_vars, stereo_vars, fam, restarts, pushed, in_queue, in_terminated, w_pc, w_msg, w_ext,
                   m_subread_groups, m_full_subread_groups, m_duplex_reads,
                   m_updated_read_tags, m_subread_groups_mutex,
                   m_duplex_reads_mutex, m_terminate, c_sub, c_dup, c_base,
                   c_count, c_index, t_pc, sink>>

\* the predicate was false: the condition variable releases the mutex and blocks
CheckBlock ==
    /\ c_pc = "block"
    /\ m_duplex_reads_mutex' = 0
    /\ c_pc' = "waiting"
    /\ UNCHANGED <<kernel_vars, graph_vars, tagging_vars, stereo_vars, fam, restarts, pushed, in_queue, in_terminated, w_pc, w_msg, w_ext,
                   m_subread_groups, m_full_subread_groups, m_duplex_reads,
                   m_updated_read_tags, m_subread_groups_mutex, m_terminate,
                   c_sub, c_dup, c_base, c_count, c_index, t_pc, sink>>

\* a condition variable may wake without a notification
CheckSpuriousWake ==
    /\ c_pc = "waiting"
    /\ c_pc' = "lock"
    /\ UNCHANGED <<kernel_vars, graph_vars, tagging_vars, stereo_vars, fam, restarts, pushed, in_queue, in_terminated, w_pc, w_msg, w_ext,
                   m_subread_groups, m_full_subread_groups, m_duplex_reads,
                   m_updated_read_tags, m_subread_groups_mutex,
                   m_duplex_reads_mutex, m_terminate, c_sub, c_dup, c_base,
                   c_count, c_index, t_pc, sink>>

\* the body of the loop after wait, with the mutex held: take the first updated
\* tag and, when its family is complete, extract it from both maps and unlock
CheckWork ==
    /\ c_pc = "work"
    /\ IF m_updated_read_tags = {}
       THEN /\ c_pc' = "loop"
            /\ m_duplex_reads_mutex' = 0
            /\ UNCHANGED <<m_updated_read_tags, m_full_subread_groups,
                           m_duplex_reads, c_sub, c_dup, c_base, c_count, c_index>>
       ELSE LET read_tag == SetMin(m_updated_read_tags)
            IN /\ m_updated_read_tags' = m_updated_read_tags \ {read_tag}
               /\ IF ~HasKey(m_full_subread_groups, read_tag)
                  THEN /\ c_pc' = "loop"
                       /\ m_duplex_reads_mutex' = 0
                       /\ UNCHANGED <<m_full_subread_groups, m_duplex_reads,
                                      c_sub, c_dup, c_base, c_count, c_index>>
                  ELSE LET group == m_full_subread_groups[read_tag]
                           duplex_reads == Lookup(m_duplex_reads, read_tag, <<>>)
                       IN IF ~FamilyReady(duplex_reads, group.num_expected_duplex)
                          THEN /\ c_pc' = "loop"
                               /\ m_duplex_reads_mutex' = 0
                               /\ m_duplex_reads' = Put(m_duplex_reads, read_tag, duplex_reads)
                               /\ UNCHANGED <<m_full_subread_groups, c_sub, c_dup,
                                              c_base, c_count, c_index>>
                          ELSE /\ m_full_subread_groups' = Erase(m_full_subread_groups, read_tag)
                               /\ m_duplex_reads' = ExtractDuplexReads(m_duplex_reads, read_tag)
                               /\ m_duplex_reads_mutex' = Unlock(CheckerId)
                               /\ c_sub' = group.subreads
                               /\ c_dup' = duplex_reads
                               /\ c_base' = Len(group.subreads)
                               /\ c_count' = SubreadCount(Len(group.subreads), duplex_reads)
                               /\ c_index' = 0
                               /\ c_pc' = "emit"
    /\ UNCHANGED <<kernel_vars, graph_vars, tagging_vars, stereo_vars, fam, restarts, pushed, in_queue, in_terminated, w_pc, w_msg, w_ext,
                   m_subread_groups, m_subread_groups_mutex, m_terminate, t_pc, sink>>

\* first loop: every simplex fragment gets split_count = subread_count and is sent
CheckEmitSimplex ==
    /\ c_pc = "emit"
    /\ c_sub # <<>>
    /\ sink' = [sink EXCEPT ![Head(c_sub).tag] =
                        Append(@, EmittedSimplex(Head(c_sub), c_count, c_base - Len(c_sub)))]
    /\ c_sub' = Tail(c_sub)
    /\ IF Tail(c_sub) = <<>> /\ c_dup = <<>>
       THEN /\ c_pc' = "loop"
            /\ c_base' = 0
            /\ c_count' = 0
       ELSE UNCHANGED <<c_pc, c_base, c_count>>
    /\ UNCHANGED <<kernel_vars, graph_vars, tagging_vars, stereo_vars, fam, restarts, pushed, in_queue, in_terminated, w_pc, w_msg, w_ext,
                   m_subread_groups, m_full_subread_groups, m_duplex_reads,
                   m_updated_read_tags, m_subread_groups_mutex,
                   m_duplex_reads_mutex, m_terminate, c_dup, c_index, t_pc>>

\* second loop: every duplex read gets split_count = subread_count and
\* subread_id = base + index++ and is sent
CheckEmitDuplex ==
    /\ c_pc = "emit"
    /\ DuplexLoopDue(c_sub)
    /\ c_dup # <<>>
    /\ sink' = [sink EXCEPT ![Head(c_dup).tag] =
                        Append(@, EmittedDuplex(Head(c_dup), c_count, c_base, c_index))]
    /\ c_dup' = Tail(c_dup)
    /\ IF Tail(c_dup) = <<>>
       THEN /\ c_pc' = "loop"
            /\ c_base' = 0
            /\ c_count' = 0
            /\ c_index' = 0
       ELSE /\ c_index' = c_index + 1
            /\ UNCHANGED <<c_pc, c_base, c_count>>
    /\ UNCHANGED <<kernel_vars, graph_vars, tagging_vars, stereo_vars, fam, restarts, pushed, in_queue, in_terminated, w_pc, w_msg, w_ext,
                   m_subread_groups, m_full_subread_groups, m_duplex_reads,
                   m_updated_read_tags, m_subread_groups_mutex,
                   m_duplex_reads_mutex, m_terminate, c_sub, t_pc>>

(***************************************************************************)
(* SubreadTaggerNode::terminate_impl                                       *)
(***************************************************************************)
\* terminate_input_queue()
TermQueue ==
    /\ t_pc = "idle"
    /\ in_terminated' = TRUE
    /\ t_pc' = "join_workers"
    /\ UNCHANGED <<kernel_vars, graph_vars, tagging_vars, stereo_vars, fam, restarts, pushed, in_queue, w_pc, w_msg, w_ext, m_subread_groups,
                   m_full_subread_groups, m_duplex_reads, m_updated_read_tags,
                   m_subread_groups_mutex, m_duplex_reads_mutex, m_terminate,
                   c_pc, c_sub, c_dup, c_base, c_count, c_index, sink>>

\* every worker thread is joined, then m_worker_threads.clear()
TermJoinWorkers ==
    /\ t_pc = "join_workers"
    /\ WorkersJoined(w_pc)
    /\ t_pc' = "store"
    /\ UNCHANGED <<kernel_vars, graph_vars, tagging_vars, stereo_vars, fam, restarts, pushed, in_queue, in_terminated, w_pc, w_msg, w_ext,
                   m_subread_groups, m_full_subread_groups, m_duplex_reads,
                   m_updated_read_tags, m_subread_groups_mutex,
                   m_duplex_reads_mutex, m_terminate, c_pc, c_sub, c_dup,
                   c_base, c_count, c_index, sink>>

\* m_terminate.store(true)
TermStore ==
    /\ t_pc = "store"
    /\ m_terminate' = TRUE
    /\ t_pc' = "notify"
    /\ UNCHANGED <<kernel_vars, graph_vars, tagging_vars, stereo_vars, fam, restarts, pushed, in_queue, in_terminated, w_pc, w_msg, w_ext,
                   m_subread_groups, m_full_subread_groups, m_duplex_reads,
                   m_updated_read_tags, m_subread_groups_mutex,
                   m_duplex_reads_mutex, c_pc, c_sub, c_dup, c_base, c_count,
                   c_index, sink>>

\* m_check_duplex_cv.notify_one()
TermNotify ==
    /\ t_pc = "notify"
    /\ c_pc' = NotifyOne(c_pc)
    /\ t_pc' = "join_duplex"
    /\ UNCHANGED <<kernel_vars, graph_vars, tagging_vars, stereo_vars, fam, restarts, pushed, in_queue, in_terminated, w_pc, w_msg, w_ext,
                   m_subread_groups, m_full_subread_groups, m_duplex_reads,
                   m_updated_read_tags, m_subread_groups_mutex,
                   m_duplex_reads_mutex, m_terminate, c_sub, c_dup, c_base,
                   c_count, c_index, sink>>

\* m_duplex_thread->join(), m_duplex_thread.reset()
TermJoinDuplex ==
    /\ t_pc = "join_duplex"
    /\ c_pc = "done"
    /\ t_pc' = "terminated"
    /\ UNCHANGED <<kernel_vars, graph_vars, tagging_vars, stereo_vars, fam, restarts, pushed, in_queue, in_terminated, w_pc, w_msg, w_ext,
                   m_subread_groups, m_full_subread_groups, m_duplex_reads,
                   m_updated_read_tags, m_subread_groups_mutex,
                   m_duplex_reads_mutex, m_terminate, c_pc, c_sub, c_dup,
                   c_base, c_count, c_index, sink>>

(***************************************************************************)
(* SubreadTaggerNode::restart, called after terminate_impl has returned:   *)
(* restart_input_queue() reopens the (empty) input queue, start_threads()  *)
(* clears m_terminate and starts a new check_duplex_thread and new workers. *)
(***************************************************************************)
Restart ==
    /\ t_pc = "terminated"
    /\ Len(restarts) < MaxRestarts
    /\ in_terminated' = FALSE
    /\ m_terminate' = StartThreadsTerminate(m_terminate)
    /\ c_pc' = "loop"
    /\ w_pc' = [w \in Workers |-> "pop"]
    /\ t_pc' = "idle"
    /\ restarts' = Append(restarts, pushed)
    /\ UNCHANGED <<kernel_vars, graph_vars, tagging_vars, stereo_vars, fam, pushed, in_queue, w_msg, w_ext, m_subread_groups,
                   m_full_subread_groups, m_duplex_reads, m_updated_read_tags,
                   m_subread_groups_mutex, m_duplex_reads_mutex, c_sub, c_dup,
                   c_base, c_count, c_index, sink>>

WorkerStep(w) ==
    \/ WorkerPop(w)
    \/ WorkerExit(w)
    \/ WorkerDuplex(w)
    \/ WorkerSimplex(w)
    \/ WorkerSend(w)
    \/ WorkerFull(w)
    \/ WorkerNotify(w)

CheckStep ==
    \/ CheckLoop
    \/ CheckLock
    \/ CheckPred
    \/ CheckBlock
    \/ CheckWork
    \/ CheckEmitSimplex
    \/ CheckEmitDuplex

TermStep ==
    \/ TermQueue
    \/ TermJoinWorkers
    \/ TermStore
    \/ TermNotify
    \/ TermJoinDuplex

(***************************************************************************)
(* StereoDuplexEncoderNode: data and pure pieces.                          *)
(***************************************************************************)
Pairs == 1..NumPairs

TemplateId(p) == 2 * p - 1

ComplementId(p) == 2 * p

UnpairedId == 2 * NumPairs + 1

ReadIds == 1..UnpairedId

\* the pairing list handed to the constructor: template id -> complement id
m_template_complement_map == [id \in { TemplateId(p) : p \in Pairs } |-> id + 1]

\* the constructor's loop: m_complement_template_map[key.second] = key.first
m_complement_template_map ==
    [c \in { m_template_complement_map[k] : k \in DOMAIN m_template_complement_map } |->
        CHOOSE k \in DOMAIN m_template_complement_map : m_template_complement_map[k] = c]

PairOf(id) == (id + 1) \div 2

TemplateLens == {1000}

ComplementLens == {940, 950, 1000}

\* the trimmed alignment positions (start, end) returned by get_trimmed_alignment
Spans == {<<0, 200>>, <<0, 900>>}

kMinTrimmedAlignmentLength == 200

\* the length ratio above which a pair is rejected is 0.05 = RatioNum / RatioDen
RatioNum == 5

RatioDen == 100

Max(a, b) == IF a >= b THEN a ELSE b

Min(a, b) == IF a <= b THEN a ELSE b

LengthRatioAtLeast(template_len, complement_len) ==
    LET delta == Max(template_len, complement_len) - Min(template_len, complement_len)
    IN delta * RatioDen >= RatioNum * Max(template_len, complement_len)

\* stereo_encode: (delta / max(template_len, complement_len)) > 0.05f, in
\* integers; the float division agrees with it for sequences shorter than 2^24
LengthRatioTooLarge(template_len, complement_len) ==
    LET delta == Max(template_len, complement_len) - Min(template_len, complement_len)
    IN delta * RatioDen > RatioNum * Max(template_len, complement_len)

\* stereo_encode: consensus_possible
ConsensusPossible(start_alignment_position, end_alignment_position) ==
    /\ start_alignment_position < end_alignment_position
    /\ (end_alignment_position - start_alignment_position) > kMinTrimmedAlignmentLength

NoEncRead == [read_id |-> 0, seq_len |-> 0]

EncRead(id, lens) == [read_id |-> id, seq_len |-> lens[id]]

\* the read stereo_encode returns: the default-constructed read when the pair is
\* rejected, else a two-dimensional payload with read_id = template ";" complement
stereo_encode(template_read, complement_read, span) ==
    IF LengthRatioTooLarge(template_read.seq_len, complement_read.seq_len)
    THEN [read_id |-> <<>>, ndimension |-> 1]
    ELSE IF ~ConsensusPossible(span[1], span[2])
         THEN [read_id |-> <<>>, ndimension |-> 1]
         ELSE [read_id |-> <<template_read.read_id, complement_read.read_id>>,
               ndimension |-> 2]

\* worker_thread, lines 313-328: the partner of a read and its role
PartnerFound(id) ==
    id \in DOMAIN m_template_complement_map \/ id \in DOMAIN m_complement_template_map

ReadIsTemplate(id) == id \in DOMAIN m_template_complement_map

PartnerId(id) ==
    IF id \in DOMAIN m_template_complement_map
    THEN m_template_complement_map[id]
    ELSE IF id \in DOMAIN m_complement_template_map
         THEN m_complement_template_map[id]
         ELSE 0

ObservedBeforeDecrement(num_worker_threads) == num_worker_threads

\* worker_thread: the value of --m_num_worker_threads
DecrementAndFetch(num_worker_threads) == num_worker_threads - 1

SinkTerminateDueFirst(num_worker_threads) == num_worker_threads = NumWorkers - 1

\* worker_thread: if (num_worker_threads == 0) m_sink.terminate()
SinkTerminateDue(num_worker_threads) == num_worker_threads = 0

TemplateOfIgnoringRole(read_is_template, read, partner_read) == read

CacheAfterTakeKept(cache, partner_id) == cache

\* worker_thread: read_cache.erase(partner_read_itr)
CacheAfterTake(cache, partner_id) == Erase(cache, partner_id)

PushDueAlways(stereo_encoded_read) == TRUE

\* worker_thread: the result is pushed if raw_data.ndimension() == 2
PushDue(stereo_encoded_read) == stereo_encoded_read.ndimension = 2

\* worker_thread, lines 345-351: the roles of the two reads of a pair
TemplateOf(read_is_template, read, partner_read) ==
    IF read_is_template THEN read ELSE partner_read

ComplementOf(read_is_template, read, partner_read) ==
    IF read_is_template THEN partner_read ELSE read

SeqLenOf(clen) ==
    [id \in ReadIds |->
        IF id = UnpairedId THEN 1000
        ELSE IF id = TemplateId(PairOf(id)) THEN 1000 ELSE clen[PairOf(id)]]

StereoInit ==
    /\ seq_len_c \in [Pairs -> ComplementLens]
    /\ align_span \in [Pairs -> Spans]
    /\ l_pc = "start"
    /\ l_loaded = {}
    /\ e_queue = <<>>
    /\ e_terminated = FALSE
    /\ e_pc = [w \in Workers |-> "pop"]
    /\ e_read = [w \in Workers |-> NoEncRead]
    /\ e_partner_id = [w \in Workers |-> 0]
    /\ e_is_template = [w \in Workers |-> FALSE]
    /\ e_partner_read = [w \in Workers |-> NoEncRead]
    /\ l_again = {}
    /\ read_cache = EmptyMap
    /\ m_read_cache_mutex = 0
    /\ taken = [id \in ReadIds |-> 0]
    /\ m_num_worker_threads = NumWorkers
    /\ sink_log = <<>>
    /\ d_pc = "alive"

(***************************************************************************)
(* DataLoader::load_reads                                                  *)
(***************************************************************************)
\* the path does not exist or is not a directory: terminate the sink, return
LoadBadPath ==
    /\ l_pc = "start"
    /\ e_terminated' = TRUE
    /\ l_pc' = "returned"
    /\ UNCHANGED <<kernel_vars, graph_vars, tagging_vars, tagger_vars, l_again, m_read_cache_mutex, taken, seq_len_c, align_span, l_loaded, e_queue, e_pc,
                   e_read, e_partner_id, e_is_template, e_partner_read, read_cache,
                   m_num_worker_threads, sink_log, d_pc>>

\* the path is a directory: the traversal starts
LoadStart ==
    /\ l_pc = "start"
    /\ l_pc' = "iterate"
    /\ UNCHANGED <<kernel_vars, graph_vars, tagging_vars, tagger_vars, l_again, m_read_cache_mutex, taken, seq_len_c, align_span, l_loaded, e_queue,
                   e_terminated, e_pc, e_read, e_partner_id, e_is_template,
                   e_partner_read, read_cache, m_num_worker_threads, sink_log, d_pc>>

\* m_read_sink.push_message(read) for the next read of the traversal; blocks
\* while the queue is full
LoadPush(id) ==
    /\ l_pc = "iterate"
    /\ id \notin l_loaded
    /\ QueueHasRoom(e_queue)
    /\ e_queue' = Append(e_queue, EncRead(id, SeqLenOf(seq_len_c)))
    /\ l_loaded' = l_loaded \cup {id}
    /\ UNCHANGED <<kernel_vars, graph_vars, tagging_vars, tagger_vars, l_again, m_read_cache_mutex, taken, seq_len_c, align_span, l_pc, e_terminated, e_pc,
                   e_read, e_partner_id, e_is_template, e_partner_read, read_cache,
                   m_num_worker_threads, sink_log, d_pc>>

\* a read the node has already received is delivered to it once more
Redeliver(id) ==
    /\ l_pc = "iterate"
    /\ id \in l_loaded
    /\ id \notin l_again
    /\ QueueHasRoom(e_queue)
    /\ e_queue' = Append(e_queue, EncRead(id, SeqLenOf(seq_len_c)))
    /\ l_again' = l_again \cup {id}
    /\ UNCHANGED <<kernel_vars, graph_vars, tagging_vars, tagger_vars, m_read_cache_mutex, taken, seq_len_c, align_span,
                   l_pc, l_loaded, e_terminated, e_pc, e_read, e_partner_id,
                   e_is_template, e_partner_read, read_cache, m_num_worker_threads,
                   sink_log, d_pc>>

\* the traversal is over: m_read_sink.terminate() at the end of load_reads
LoadFinish ==
    /\ l_pc = "iterate"
    /\ e_terminated' = TRUE
    /\ l_pc' = "returned"
    /\ UNCHANGED <<kernel_vars, graph_vars, tagging_vars, tagger_vars, l_again, m_read_cache_mutex, taken, seq_len_c, align_span, l_loaded, e_queue, e_pc,
                   e_read, e_partner_id, e_is_template, e_partner_read, read_cache,
                   m_num_worker_threads, sink_log, d_pc>>

\* the traversal throws (a FAST5 file in BY_CHANNEL order, an unsupported
\* traversal order): load_reads is left without terminating the sink
LoadThrow ==
    /\ l_pc = "iterate"
    /\ l_pc' = "thrown"
    /\ UNCHANGED <<kernel_vars, graph_vars, tagging_vars, tagger_vars, l_again, m_read_cache_mutex, taken, seq_len_c, align_span, l_loaded, e_queue,
                   e_terminated, e_pc, e_read, e_partner_id, e_is_template,
                   e_partner_read, read_cache, m_num_worker_threads, sink_log, d_pc>>

(***************************************************************************)
(* StereoDuplexEncoderNode::worker_thread                                  *)
(***************************************************************************)
\* m_work_queue.try_pop(message) returns a read; its partner is looked up in the
\* two maps; a read without partner is dropped
EncPop(w) ==
    /\ e_pc[w] = "pop"
    /\ e_queue # <<>>
    /\ e_queue' = Tail(e_queue)
    /\ LET read == Head(e_queue)
       IN IF PartnerFound(read.read_id)
          THEN /\ e_read' = [e_read EXCEPT ![w] = read]
               /\ e_is_template' = [e_is_template EXCEPT ![w] = ReadIsTemplate(read.read_id)]
               /\ e_partner_id' = [e_partner_id EXCEPT ![w] = PartnerId(read.read_id)]
               /\ e_pc' = [e_pc EXCEPT ![w] = "cache"]
          ELSE UNCHANGED <<e_read, e_is_template, e_partner_id, e_pc>>
    /\ UNCHANGED <<kernel_vars, graph_vars, tagging_vars, tagger_vars, l_again, m_read_cache_mutex, taken, seq_len_c, align_span, l_pc, l_loaded,
                   e_terminated, e_partner_read, read_cache, m_num_worker_threads,
                   sink_log, d_pc>>

\* try_pop returns false: the queue is terminated and empty; the loop is left
EncLeaveLoop(w) ==
    /\ e_pc[w] = "pop"
    /\ Exhausted(e_queue, e_terminated)
    /\ e_pc' = [e_pc EXCEPT ![w] = "decrement"]
    /\ UNCHANGED <<kernel_vars, graph_vars, tagging_vars, tagger_vars, l_again, m_read_cache_mutex, taken, seq_len_c, align_span, l_pc, l_loaded, e_queue,
                   e_terminated, e_read, e_partner_id, e_is_template, e_partner_read,
                   read_cache, m_num_worker_threads, sink_log, d_pc>>

\* the critical section on read_cache (m_read_cache_mutex): cache the read when
\* the partner is absent, else take the partner out of the cache
EncCache(w) ==
    /\ e_pc[w] = "cache"
    /\ m_read_cache_mutex = 0
    /\ m_read_cache_mutex' = Unlock(w)
    /\ IF ~HasKey(read_cache, e_partner_id[w])
       THEN /\ read_cache' = Put(read_cache, e_read[w].read_id, e_read[w])
            /\ e_pc' = [e_pc EXCEPT ![w] = "pop"]
            /\ e_read' = [e_read EXCEPT ![w] = NoEncRead]
            /\ e_partner_id' = [e_partner_id EXCEPT ![w] = 0]
            /\ e_is_template' = [e_is_template EXCEPT ![w] = FALSE]
            /\ UNCHANGED <<e_partner_read, taken>>
       ELSE /\ e_partner_read' = [e_partner_read EXCEPT ![w] = read_cache[e_partner_id[w]]]
            /\ read_cache' = CacheAfterTake(read_cache, e_partner_id[w])
            /\ taken' = [taken EXCEPT ![e_partner_id[w]] = @ + 1]
            /\ e_pc' = [e_pc EXCEPT ![w] = "encode"]
            /\ UNCHANGED <<e_read, e_partner_id, e_is_template>>
    /\ UNCHANGED <<kernel_vars, graph_vars, tagging_vars, tagger_vars, l_again, seq_len_c, align_span, l_pc, l_loaded, e_queue,
                   e_terminated, m_num_worker_threads, sink_log, d_pc>>

\* stereo_encode on the pair, and m_sink.push_message when the result is
\* two-dimensional
EncEncode(w) ==
    /\ e_pc[w] = "encode"
    /\ LET template_read == TemplateOf(e_is_template[w], e_read[w], e_partner_read[w])
           complement_read == ComplementOf(e_is_template[w], e_read[w], e_partner_read[w])
           stereo_encoded_read ==
               stereo_encode(template_read, complement_read,
                             align_span[PairOf(template_read.read_id)])
       IN sink_log' = IF PushDue(stereo_encoded_read)
                      THEN Append(sink_log, [op |-> "push",
                                             read_id |-> stereo_encoded_read.read_id,
                                             by |-> IF e_is_template[w]
                                                    THEN "template" ELSE "complement"])
                      ELSE sink_log
    /\ e_pc' = [e_pc EXCEPT ![w] = "pop"]
    /\ e_read' = [e_read EXCEPT ![w] = NoEncRead]
    /\ e_partner_read' = [e_partner_read EXCEPT ![w] = NoEncRead]
    /\ e_partner_id' = [e_partner_id EXCEPT ![w] = 0]
    /\ e_is_template' = [e_is_template EXCEPT ![w] = FALSE]
    /\ UNCHANGED <<kernel_vars, graph_vars, tagging_vars, tagger_vars, l_again, m_read_cache_mutex, taken, seq_len_c, align_span, l_pc, l_loaded, e_queue,
                   e_terminated, read_cache, m_num_worker_threads, d_pc>>

\* int num_worker_threads = --m_num_worker_threads
EncDecrement(w) ==
    /\ e_pc[w] = "decrement"
    /\ m_num_worker_threads' = m_num_worker_threads - 1
    /\ e_pc' = [e_pc EXCEPT ![w] =
                    IF SinkTerminateDue(DecrementAndFetch(m_num_worker_threads))
                    THEN "terminate" ELSE "done"]
    /\ UNCHANGED <<kernel_vars, graph_vars, tagging_vars, tagger_vars, l_again, m_read_cache_mutex, taken, seq_len_c, align_span, l_pc, l_loaded, e_queue,
                   e_terminated, e_read, e_partner_id, e_is_template, e_partner_read,
                   read_cache, sink_log, d_pc>>

\* the worker that counted down to 0 calls m_sink.terminate()
EncTerminateSink(w) ==
    /\ e_pc[w] = "terminate"
    /\ sink_log' = Append(sink_log, [op |-> "terminate", read_id |-> <<>>, by |-> "worker"])
    /\ e_pc' = [e_pc EXCEPT ![w] = "done"]
    /\ UNCHANGED <<kernel_vars, graph_vars, tagging_vars, tagger_vars, l_again, m_read_cache_mutex, taken, seq_len_c, align_span, l_pc, l_loaded, e_queue,
                   e_terminated, e_read, e_partner_id, e_is_template, e_partner_read,
                   read_cache, m_num_worker_threads, d_pc>>

(***************************************************************************)
(* StereoDuplexEncoderNode::~StereoDuplexEncoderNode, which runs when the  *)
(* scope that called load_reads is left.                                   *)
(***************************************************************************)
\* terminate(): the node's own work queue is terminated
DtorTerminate ==
    /\ d_pc = "alive"
    /\ l_pc \in {"returned", "thrown"}
    /\ e_terminated' = TRUE
    /\ d_pc' = "join"
    /\ UNCHANGED <<kernel_vars, graph_vars, tagging_vars, tagger_vars, l_again, m_read_cache_mutex, taken, seq_len_c, align_span, l_pc, l_loaded, e_queue,
                   e_pc, e_read, e_partner_id, e_is_template, e_partner_read,
                   read_cache, m_num_worker_threads, sink_log>>

\* every worker thread is joined
DtorJoin ==
    /\ d_pc = "join"
    /\ \A w \in Workers : e_pc[w] = "done"
    /\ d_pc' = "terminate"
    /\ UNCHANGED <<kernel_vars, graph_vars, tagging_vars, tagger_vars, l_again, m_read_cache_mutex, taken, seq_len_c, align_span, l_pc, l_loaded, e_queue,
                   e_terminated, e_pc, e_read, e_partner_id, e_is_template,
                   e_partner_read, read_cache, m_num_worker_threads, sink_log>>

\* m_sink.terminate()
DtorTerminateSink ==
    /\ d_pc = "terminate"
    /\ sink_log' = Append(sink_log, [op |-> "terminate", read_id |-> <<>>, by |-> "destructor"])
    /\ d_pc' = "destroyed"
    /\ UNCHANGED <<kernel_vars, graph_vars, tagging_vars, tagger_vars, l_again, m_read_cache_mutex, taken, seq_len_c, align_span, l_pc, l_loaded, e_queue,
                   e_terminated, e_pc, e_read, e_partner_id, e_is_template,
                   e_partner_read, read_cache, m_num_worker_threads>>

LoadStep ==
    \/ LoadBadPath
    \/ LoadStart
    \/ \E id \in ReadIds : LoadPush(id)
    \/ LoadFinish
    \/ LoadThrow

EncStep(w) ==
    \/ EncPop(w)
    \/ EncLeaveLoop(w)
    \/ EncCache(w)
    \/ EncEncode(w)
    \/ EncDecrement(w)
    \/ EncTerminateSink(w)

DtorStep ==
    \/ DtorTerminate
    \/ DtorJoin
    \/ DtorTerminateSink

StereoNext ==
    \/ LoadStep
    \/ \E w \in Workers : EncStep(w)
    \/ DtorStep

(***************************************************************************)
(* Pipelines.cpp: the PipelineDescriptor and the two builders.  The         *)
(* descriptor holds, before a builder is called, the caller's source node   *)
(* and sink node; the builder receives their handles or InvalidNodeHandle.  *)
(***************************************************************************)
InvalidNodeHandle == 0

InitialNodes == <<"Source", "Sink">>

HandleOf(kind) == CHOOSE h \in 1..Len(InitialNodes) : InitialNodes[h] = kind

\* pipeline_desc.add_node<Kind>(sinks, ...): the handle of the new node
NewHandle(nodes) == Len(nodes) + 1

\* pipeline_desc.add_node<Kind>(sinks, ...): the node is appended
AddNode(nodes, kind) == Append(nodes, kind)

\* pipeline_desc.add_node_sink(node, sink), and the sinks given to add_node
AddNodeSink(edges, node, sink_node) == edges \cup {<<node, sink_node>>}

NoHandles ==
    [first_node_handle |-> InvalidNodeHandle, last_node_handle |-> InvalidNodeHandle,
     current_node_handle |-> InvalidNodeHandle, stereo_basecaller_node |-> InvalidNodeHandle,
     stereo_node |-> InvalidNodeHandle, pairing_node |-> InvalidNodeHandle,
     splitter_node |-> InvalidNodeHandle, basecaller_node |-> InvalidNodeHandle,
     scaler_node |-> InvalidNodeHandle]

SimplexArgs ==
    [enable_read_splitter : BOOLEAN, is_rna : BOOLEAN, modbase_runners : BOOLEAN,
     pairing_by_map : {FALSE},
     sink_node_handle : {InvalidNodeHandle, HandleOf("Sink")},
     source_node_handle : {InvalidNodeHandle, HandleOf("Source")}]

StereoDuplexArgs ==
    [enable_read_splitter : {FALSE}, is_rna : {FALSE}, modbase_runners : BOOLEAN,
     pairing_by_map : BOOLEAN,
     sink_node_handle : {InvalidNodeHandle, HandleOf("Sink")},
     source_node_handle : {InvalidNodeHandle, HandleOf("Source")}]

FirstNodeHandleScaler(current_node_handle, first_node_handle, scaler_node) == scaler_node

\* create_simplex_pipeline: the scaler is the first node unless a node was
\* added before it
FirstNodeHandle(current_node_handle, first_node_handle, scaler_node) ==
    IF current_node_handle # InvalidNodeHandle THEN first_node_handle ELSE scaler_node

DuplexLastNodeHandleBasecaller(modbase_runners, stereo_basecaller_node, mod_base_caller_node) ==
    stereo_basecaller_node

\* create_stereo_duplex_pipeline: last_node_handle is the stereo basecaller,
\* or the modbase caller when modbase runners are given
DuplexLastNodeHandle(modbase_runners, stereo_basecaller_node, mod_base_caller_node) ==
    IF modbase_runners THEN mod_base_caller_node ELSE stereo_basecaller_node

GraphInit ==
    /\ g_fn \in {"create_simplex_pipeline", "create_stereo_duplex_pipeline"}
    /\ g_args \in SimplexArgs \cup StereoDuplexArgs
    /\ g_fn = "create_simplex_pipeline" => g_args \in SimplexArgs
    /\ g_fn = "create_stereo_duplex_pipeline" => g_args \in StereoDuplexArgs
    /\ g_pc = IF g_fn = "create_simplex_pipeline" THEN "rna_splitter" ELSE "stereo_basecaller"
    /\ g_nodes = InitialNodes
    /\ g_edges = {}
    /\ g_h = NoHandles

\* no builder is called
GraphIdle ==
    /\ g_fn = "none"
    /\ g_args = [enable_read_splitter |-> FALSE, is_rna |-> FALSE,
                 modbase_runners |-> FALSE, pairing_by_map |-> FALSE,
                 sink_node_handle |-> InvalidNodeHandle,
                 source_node_handle |-> InvalidNodeHandle]
    /\ g_pc = "done"
    /\ g_nodes = InitialNodes
    /\ g_edges = {}
    /\ g_h = NoHandles

(***************************************************************************)
(* create_simplex_pipeline                                                 *)
(***************************************************************************)
\* for an RNA model, read splitting comes first
SimplexRnaSplitter ==
    /\ g_fn = "create_simplex_pipeline"
    /\ g_pc = "rna_splitter"
    /\ IF g_args.enable_read_splitter /\ g_args.is_rna
       THEN /\ g_nodes' = AddNode(g_nodes, "ReadSplitNode:RNAReadSplitter")
            /\ g_h' = [g_h EXCEPT !.first_node_handle = NewHandle(g_nodes),
                                  !.current_node_handle = NewHandle(g_nodes)]
       ELSE UNCHANGED <<g_nodes, g_h>>
    /\ g_pc' = "scaler"
    /\ UNCHANGED <<kernel_vars, tagger_vars, stereo_vars, tagging_vars, g_fn, g_args, g_edges>>

\* the scaler, fed by the node added before it when there is one
SimplexScaler ==
    /\ g_fn = "create_simplex_pipeline"
    /\ g_pc = "scaler"
    /\ LET scaler_node == NewHandle(g_nodes)
       IN /\ g_nodes' = AddNode(g_nodes, "ScalerNode")
          /\ g_edges' = IF g_h.current_node_handle # InvalidNodeHandle
                        THEN AddNodeSink(g_edges, g_h.current_node_handle, scaler_node)
                        ELSE g_edges
          /\ g_h' = [g_h EXCEPT
                        !.first_node_handle =
                            FirstNodeHandle(g_h.current_node_handle,
                                            g_h.first_node_handle, scaler_node),
                        !.current_node_handle = scaler_node,
                        !.scaler_node = scaler_node]
    /\ g_pc' = "basecaller"
    /\ UNCHANGED <<kernel_vars, tagger_vars, stereo_vars, tagging_vars, g_fn, g_args>>

\* the basecaller, fed by the scaler
SimplexBasecaller ==
    /\ g_fn = "create_simplex_pipeline"
    /\ g_pc = "basecaller"
    /\ LET basecaller_node == NewHandle(g_nodes)
       IN /\ g_nodes' = AddNode(g_nodes, "BasecallerNode")
          /\ g_edges' = AddNodeSink(g_edges, g_h.current_node_handle, basecaller_node)
          /\ g_h' = [g_h EXCEPT !.current_node_handle = basecaller_node,
                                !.last_node_handle = basecaller_node,
                                !.basecaller_node = basecaller_node]
    /\ g_pc' = "dna_splitter"
    /\ UNCHANGED <<kernel_vars, tagger_vars, stereo_vars, tagging_vars, g_fn, g_args>>

\* for DNA, read splitting comes after the basecaller
SimplexDnaSplitter ==
    /\ g_fn = "create_simplex_pipeline"
    /\ g_pc = "dna_splitter"
    /\ IF g_args.enable_read_splitter /\ ~g_args.is_rna
       THEN LET dna_splitter_node == NewHandle(g_nodes)
            IN /\ g_nodes' = AddNode(g_nodes, "ReadSplitNode:DuplexReadSplitter")
               /\ g_edges' = AddNodeSink(g_edges, g_h.current_node_handle, dna_splitter_node)
               /\ g_h' = [g_h EXCEPT !.current_node_handle = dna_splitter_node,
                                     !.last_node_handle = dna_splitter_node,
                                     !.splitter_node = dna_splitter_node]
       ELSE UNCHANGED <<g_nodes, g_edges, g_h>>
    /\ g_pc' = "modbase"
    /\ UNCHANGED <<kernel_vars, tagger_vars, stereo_vars, tagging_vars, g_fn, g_args>>

\* the modbase caller, when modbase runners are given
SimplexModBase ==
    /\ g_fn = "create_simplex_pipeline"
    /\ g_pc = "modbase"
    /\ IF g_args.modbase_runners
       THEN LET mod_base_caller_node == NewHandle(g_nodes)
            IN /\ g_nodes' = AddNode(g_nodes, "ModBaseCallerNode")
               /\ g_edges' = AddNodeSink(g_edges, g_h.current_node_handle,
                                         mod_base_caller_node)
               /\ g_h' = [g_h EXCEPT !.current_node_handle = mod_base_caller_node,
                                     !.last_node_handle = mod_base_caller_node]
       ELSE UNCHANGED <<g_nodes, g_edges, g_h>>
    /\ g_pc' = "source"
    /\ UNCHANGED <<kernel_vars, tagger_vars, stereo_vars, tagging_vars, g_fn, g_args>>

\* a source node given by the caller feeds the start of the pipeline
SimplexSource ==
    /\ g_fn = "create_simplex_pipeline"
    /\ g_pc = "source"
    /\ g_edges' = IF g_args.source_node_handle # InvalidNodeHandle
                  THEN AddNodeSink(g_edges, g_args.source_node_handle,
                                   g_h.first_node_handle)
                  ELSE g_edges
    /\ g_pc' = "sink"
    /\ UNCHANGED <<kernel_vars, tagger_vars, stereo_vars, tagging_vars, g_fn, g_args, g_nodes, g_h>>

\* a sink node given by the caller is fed by the end of the pipeline
SimplexSink ==
    /\ g_fn = "create_simplex_pipeline"
    /\ g_pc = "sink"
    /\ g_edges' = IF g_args.sink_node_handle # InvalidNodeHandle
                  THEN AddNodeSink(g_edges, g_h.last_node_handle, g_args.sink_node_handle)
                  ELSE g_edges
    /\ g_pc' = "done"
    /\ UNCHANGED <<kernel_vars, tagger_vars, stereo_vars, tagging_vars, g_fn, g_args, g_nodes, g_h>>

(***************************************************************************)
(* create_stereo_duplex_pipeline                                           *)
(***************************************************************************)
\* the stereo basecaller, added first, without sinks
DuplexStereoBasecaller ==
    /\ g_fn = "create_stereo_duplex_pipeline"
    /\ g_pc = "stereo_basecaller"
    /\ g_nodes' = AddNode(g_nodes, "StereoBasecallerNode")
    /\ g_h' = [g_h EXCEPT !.stereo_basecaller_node = NewHandle(g_nodes),
                          !.last_node_handle = NewHandle(g_nodes)]
    /\ g_pc' = "modbase"
    /\ UNCHANGED <<kernel_vars, tagger_vars, stereo_vars, tagging_vars, g_fn, g_args, g_edges>>

\* the modbase caller, when modbase runners are given, fed by the stereo
\* basecaller
DuplexModBase ==
    /\ g_fn = "create_stereo_duplex_pipeline"
    /\ g_pc = "modbase"
    /\ IF g_args.modbase_runners
       THEN /\ g_nodes' = AddNode(g_nodes, "ModBaseCallerNode")
            /\ g_edges' = AddNodeSink(g_edges, g_h.stereo_basecaller_node,
                                      NewHandle(g_nodes))
       ELSE UNCHANGED <<g_nodes, g_edges>>
    /\ g_h' = [g_h EXCEPT !.last_node_handle =
                    DuplexLastNodeHandle(g_args.modbase_runners,
                                         g_h.stereo_basecaller_node, NewHandle(g_nodes))]
    /\ g_pc' = "stereo_encoder"
    /\ UNCHANGED <<kernel_vars, tagger_vars, stereo_vars, tagging_vars, g_fn, g_args>>

\* the stereo encoder, with the stereo basecaller as its sink
DuplexStereoEncoder ==
    /\ g_fn = "create_stereo_duplex_pipeline"
    /\ g_pc = "stereo_encoder"
    /\ g_nodes' = AddNode(g_nodes, "StereoDuplexEncoderNode")
    /\ g_edges' = AddNodeSink(g_edges, NewHandle(g_nodes), g_h.stereo_basecaller_node)
    /\ g_h' = [g_h EXCEPT !.stereo_node = NewHandle(g_nodes)]
    /\ g_pc' = "pairing"
    /\ UNCHANGED <<kernel_vars, tagger_vars, stereo_vars, tagging_vars, g_fn, g_args>>

\* the pairing node (built from pairing parameters or from a pairing map),
\* with the stereo encoder as its sink
DuplexPairing ==
    /\ g_fn = "create_stereo_duplex_pipeline"
    /\ g_pc = "pairing"
    /\ g_nodes' = AddNode(g_nodes, "PairingNode")
    /\ g_edges' = AddNodeSink(g_edges, NewHandle(g_nodes), g_h.stereo_node)
    /\ g_h' = [g_h EXCEPT !.pairing_node = NewHandle(g_nodes)]
    /\ g_pc' = "splitter"
    /\ UNCHANGED <<kernel_vars, tagger_vars, stereo_vars, tagging_vars, g_fn, g_args>>

\* the duplex split node, with the pairing node as its sink
DuplexSplitter ==
    /\ g_fn = "create_stereo_duplex_pipeline"
    /\ g_pc = "splitter"
    /\ g_nodes' = AddNode(g_nodes, "ReadSplitNode:DuplexReadSplitter")
    /\ g_edges' = AddNodeSink(g_edges, NewHandle(g_nodes), g_h.pairing_node)
    /\ g_h' = [g_h EXCEPT !.splitter_node = NewHandle(g_nodes)]
    /\ g_pc' = "basecaller"
    /\ UNCHANGED <<kernel_vars, tagger_vars, stereo_vars, tagging_vars, g_fn, g_args>>

\* the simplex basecaller, with the split node as its sink
DuplexBasecaller ==
    /\ g_fn = "create_stereo_duplex_pipeline"
    /\ g_pc = "basecaller"
    /\ g_nodes' = AddNode(g_nodes, "BasecallerNode")
    /\ g_edges' = AddNodeSink(g_edges, NewHandle(g_nodes), g_h.splitter_node)
    /\ g_h' = [g_h EXCEPT !.basecaller_node = NewHandle(g_nodes)]
    /\ g_pc' = "scaler"
    /\ UNCHANGED <<kernel_vars, tagger_vars, stereo_vars, tagging_vars, g_fn, g_args>>

\* the scaler, with the simplex basecaller as its sink
DuplexScaler ==
    /\ g_fn = "create_stereo_duplex_pipeline"
    /\ g_pc = "scaler"
    /\ g_nodes' = AddNode(g_nodes, "ScalerNode")
    /\ g_edges' = AddNodeSink(g_edges, NewHandle(g_nodes), g_h.basecaller_node)
    /\ g_h' = [g_h EXCEPT !.scaler_node = NewHandle(g_nodes)]
    /\ g_pc' = "source"
    /\ UNCHANGED <<kernel_vars, tagger_vars, stereo_vars, tagging_vars, g_fn, g_args>>

\* a source node given by the caller feeds the scaler
DuplexSource ==
    /\ g_fn = "create_stereo_duplex_pipeline"
    /\ g_pc = "source"
    /\ g_edges' = IF g_args.source_node_handle # InvalidNodeHandle
                  THEN AddNodeSink(g_edges, g_args.source_node_handle, g_h.scaler_node)
                  ELSE g_edges
    /\ g_pc' = "sink"
    /\ UNCHANGED <<kernel_vars, tagger_vars, stereo_vars, tagging_vars, g_fn, g_args, g_nodes, g_h>>

\* a sink node given by the caller is fed by the last node
DuplexSink ==
    /\ g_fn = "create_stereo_duplex_pipeline"
    /\ g_pc = "sink"
    /\ g_edges' = IF g_args.sink_node_handle # InvalidNodeHandle
                  THEN AddNodeSink(g_edges, g_h.last_node_handle, g_args.sink_node_handle)
                  ELSE g_edges
    /\ g_pc' = "done"
    /\ UNCHANGED <<kernel_vars, tagger_vars, stereo_vars, tagging_vars, g_fn, g_args, g_nodes, g_h>>

SimplexStep ==
    \/ SimplexRnaSplitter
    \/ SimplexScaler
    \/ SimplexBasecaller
    \/ SimplexDnaSplitter
    \/ SimplexModBase
    \/ SimplexSource
    \/ SimplexSink

DuplexStep ==
    \/ DuplexStereoBasecaller
    \/ DuplexModBase
    \/ DuplexStereoEncoder
    \/ DuplexPairing
    \/ DuplexSplitter
    \/ DuplexBasecaller
    \/ DuplexScaler
    \/ DuplexSource
    \/ DuplexSink

BuildNext == SimplexStep \/ DuplexStep

(***************************************************************************)
(* DuplexReadTaggingNode.  A simplex read has a one-digit id; the duplex    *)
(* read of parents a and b has the id 10a + b (the id "a;b").  The test     *)
(* pushes, in some order, simplex reads and the duplex read of reads 1 and  *)
(* 2, each flagged or not as a duplex parent, and then resets the pipeline. *)
(***************************************************************************)
DuplexIdOf(template_read_id, complement_read_id) == 10 * template_read_id + complement_read_id

\* the part of a duplex read's id before the ';'
TemplateReadId(read_id) == read_id \div 10

\* the part of a duplex read's id after the ';'
ComplementReadId(read_id) == read_id % 10

ParentIds(read_id) == {TemplateReadId(read_id), ComplementReadId(read_id)}

TestReads ==
    { [read_id |-> i, is_duplex |-> FALSE, is_duplex_parent |-> p] :
        i \in 1..NumTestReads, p \in BOOLEAN } \cup
    { [read_id |-> DuplexIdOf(1, 2), is_duplex |-> TRUE, is_duplex_parent |-> p] :
        p \in BOOLEAN }

FlushedParentFlagKept(is_duplex_parent) == is_duplex_parent

\* a held parent whose duplex offspring never came is sent on, when the input
\* is exhausted, no longer flagged as a duplex parent
FlushedParentFlag(is_duplex_parent) == FALSE

\* a parent id named by a duplex read: a parent already sent is left alone, a
\* held parent is sent on, an unseen parent is noted as wanted
TagParent(st, rid) ==
    IF rid \in st.processed
    THEN st
    ELSE IF HasKey(st.parents, rid)
         THEN [st EXCEPT !.out = Append(@, st.parents[rid]),
                         !.processed = @ \cup {rid},
                         !.parents = Erase(@, rid)]
         ELSE [st EXCEPT !.wanted = @ \cup {rid}]

TaggingInit ==
    /\ dt_pushed = {}
    /\ dt_queue = <<>>
    /\ dt_terminated = FALSE
    /\ dt_pc = "loop"
    /\ m_duplex_parents = EmptyMap
    /\ m_parents_wanted = {}
    /\ m_parents_processed = {}
    /\ messages = <<>>

\* pipeline->push_message(read)
TestPush(r) ==
    /\ ~dt_terminated
    /\ \A q \in dt_pushed : q.read_id # r.read_id
    /\ QueueHasRoom(dt_queue)
    /\ dt_queue' = Append(dt_queue, r)
    /\ dt_pushed' = dt_pushed \cup {r}
    /\ UNCHANGED <<kernel_vars, tagger_vars, stereo_vars, graph_vars, dt_terminated, dt_pc,
                   m_duplex_parents, m_parents_wanted, m_parents_processed, messages>>

\* pipeline.reset(): the node's input is terminated
TestReset ==
    /\ ~dt_terminated
    /\ dt_terminated' = TRUE
    /\ UNCHANGED <<kernel_vars, tagger_vars, stereo_vars, graph_vars, dt_pushed, dt_queue, dt_pc,
                   m_duplex_parents, m_parents_wanted, m_parents_processed, messages>>

\* the worker takes a read: a simplex read that is no duplex parent is sent
\* on; a duplex read is sent on and its two parents looked up; a duplex parent
\* is sent on when a duplex read has named it, and held otherwise
TagWork ==
    /\ dt_pc = "loop"
    /\ dt_queue # <<>>
    /\ dt_queue' = Tail(dt_queue)
    /\ LET read == Head(dt_queue)
           st0 == [parents |-> m_duplex_parents, wanted |-> m_parents_wanted,
                   processed |-> m_parents_processed, out |-> Append(messages, read)]
           st2 == TagParent(TagParent(st0, TemplateReadId(read.read_id)),
                            ComplementReadId(read.read_id))
       IN IF ~read.is_duplex /\ ~read.is_duplex_parent
          THEN /\ messages' = Append(messages, read)
               /\ UNCHANGED <<m_duplex_parents, m_parents_wanted, m_parents_processed>>
          ELSE IF read.is_duplex
          THEN /\ messages' = st2.out
               /\ m_duplex_parents' = st2.parents
               /\ m_parents_wanted' = st2.wanted
               /\ m_parents_processed' = st2.processed
          ELSE IF read.read_id \in m_parents_wanted
          THEN /\ messages' = Append(messages, read)
               /\ m_parents_processed' = m_parents_processed \cup {read.read_id}
               /\ m_parents_wanted' = m_parents_wanted \ {read.read_id}
               /\ UNCHANGED m_duplex_parents
          ELSE /\ m_duplex_parents' = Put(m_duplex_parents, read.read_id, read)
               /\ UNCHANGED <<messages, m_parents_wanted, m_parents_processed>>
    /\ UNCHANGED <<kernel_vars, tagger_vars, stereo_vars, graph_vars, dt_pushed, dt_terminated, dt_pc>>

\* the input is exhausted: the worker leaves its loop
TagLeaveLoop ==
    /\ dt_pc = "loop"
    /\ Exhausted(dt_queue, dt_terminated)
    /\ dt_pc' = "flush"
    /\ UNCHANGED <<kernel_vars, tagger_vars, stereo_vars, graph_vars, dt_pushed, dt_queue,
                   dt_terminated, m_duplex_parents, m_parents_wanted,
                   m_parents_processed, messages>>

\* the parents still held are sent on, one by one
TagFlush ==
    /\ dt_pc = "flush"
    /\ IF m_duplex_parents = EmptyMap
       THEN /\ dt_pc' = "done"
            /\ UNCHANGED <<m_duplex_parents, messages>>
       ELSE LET rid == SetMin(DOMAIN m_duplex_parents)
                read == m_duplex_parents[rid]
            IN /\ messages' =
                     Append(messages,
                            [read EXCEPT !.is_duplex_parent =
                                            FlushedParentFlag(read.is_duplex_parent)])
               /\ m_duplex_parents' = Erase(m_duplex_parents, rid)
               /\ UNCHANGED dt_pc
    /\ UNCHANGED <<kernel_vars, tagger_vars, stereo_vars, graph_vars, dt_pushed, dt_queue,
                   dt_terminated, m_parents_wanted, m_parents_processed>>

TaggingNext ==
    \/ \E r \in TestReads : TestPush(r)
    \/ TestReset
    \/ TagWork
    \/ TagLeaveLoop
    \/ TagFlush

\* the node is not used
TaggingIdle == TaggingInit

(***************************************************************************)
(* DataLoader: the constructor, load_reads, load_read_channels and the     *)
(* three loaders of one file.  The files are well formed: every batch and  *)
(* row can be read, and the traversal plan finds every read it is asked    *)
(* for.                                                                    *)
(***************************************************************************)
\* size_t is modelled with 30 bits
SizeModulus == 1073741824

SizeSub(a, b) == (a - b + SizeModulus) % SizeModulus

Channels == 0..MaxChannel

BatchesOfRows ==
    UNION { [1..n -> UNION { [1..k -> Channels] : k \in 0..MaxRows }] : n \in 0..MaxBatches }

\* a FAST5 file has no batches: its reads are one list
DirectoryEntries ==
    [ext : {".pod5"}, batches : BatchesOfRows]
    \cup { e \in [ext : {".fast5"}, batches : BatchesOfRows] : Len(e.batches) = 1 }

Directories == UNION { [1..n -> DirectoryEntries] : n \in 0..MaxFiles }

\* DataLoader::DataLoader: max_reads == 0 stands for no limit
MaxReadsOf(max_reads) == IF max_reads = 0 THEN SizeModulus - 1 ELSE max_reads

\* !m_allowed_read_ids || m_allowed_read_ids->find(read_id) != end(): the read
\* list, when one is given, names the reads of channel 0
Allowed(read_list, row) == read_list = "nullopt" \/ row = 0

\* the rows of a batch that are in read_ids (the reads of the channel)
RowsOfChannel(rows, channel) == SelectSeq(rows, LAMBDA row : row = channel)

\* load_read_channels: the largest channel of a row of a POD5 file
MaxChannelOf(files, max_channel) ==
    LET seen == { ch \in Channels :
                    \E f \in 1..Len(files) :
                        /\ files[f].ext = ".pod5"
                        /\ \E b \in 1..Len(files[f].batches) :
                              \E r \in 1..Len(files[f].batches[b]) :
                                  files[f].batches[b][r] = ch }
    IN IF seen = {} THEN max_channel
       ELSE Max(max_channel, CHOOSE ch \in seen : \A other \in seen : other <= ch)

\* channel_to_read_ids.find(channel) != end(): the file has a read of the channel
ChannelInFile(file, channel) ==
    \E b \in 1..Len(file.batches) : RowsOfChannel(file.batches[b], channel) # <<>>

\* load_pod5_reads_from_file_by_read_ids: the rows of the plan that are allowed
FuturesOfPlan(rows, read_list) ==
    Len(SelectSeq(rows, LAMBDA row : Allowed(read_list, row)))

\* load_pod5_reads_from_file: the rows below batch_row_count that are allowed
FuturesOf(rows, batch_row_count, read_list) ==
    Len(SelectSeq(SubSeq(rows, 1, batch_row_count), LAMBDA row : Allowed(read_list, row)))

\* load_pod5_reads_from_file: std::min(batch_row_count, m_max_reads - m_loaded_read_count)
BatchRowCount(rows, max_reads, loaded_read_count) ==
    Min(Len(rows), SizeSub(max_reads, loaded_read_count))

\* m_loaded_read_count == m_max_reads
LimitReached(loaded_read_count, max_reads) == loaded_read_count = max_reads

LoaderInit ==
    /\ dl_path \in {"missing", "file", "directory"}
    /\ dl_order \in {"UNRESTRICTED", "BY_CHANNEL", "UNSUPPORTED"}
    /\ dl_files \in Directories
    /\ dl_max_reads \in 0..MaxMaxReads
    /\ dl_read_list \in {"nullopt", "given"}
    /\ dl_path # "directory" =>
          dl_files = <<>> /\ dl_order = "UNRESTRICTED" /\ dl_read_list = "nullopt"
    /\ dl_order = "UNSUPPORTED" => dl_files = <<>> /\ dl_read_list = "nullopt"
    /\ dl_pc = "start"
    /\ dl_channel = 0
    /\ dl_entry = 1
    /\ dl_batch = 1
    /\ dl_row = 1
    /\ dl_futures = 0
    /\ m_max_channel = 0
    /\ m_loaded_read_count = 0
    /\ dl_terminated = 0

\* the loader is not used
LoaderIdle ==
    /\ dl_path = "missing"
    /\ dl_order = "UNRESTRICTED"
    /\ dl_files = <<>>
    /\ dl_max_reads = 0
    /\ dl_read_list = "nullopt"
    /\ dl_pc = "idle"
    /\ dl_channel = 0
    /\ dl_entry = 1
    /\ dl_batch = 1
    /\ dl_row = 1
    /\ dl_futures = 0
    /\ m_max_channel = 0
    /\ m_loaded_read_count = 0
    /\ dl_terminated = 0

\* load_reads: the path does not exist, or is not a directory
LoadReadsBadPath ==
    /\ dl_pc = "start"
    /\ dl_path # "directory"
    /\ dl_terminated' = dl_terminated + 1
    /\ dl_pc' = "returned"
    /\ UNCHANGED <<node_vars, encode_vars, motif_vars, dl_path, dl_order, dl_files, dl_max_reads, dl_read_list,
                   dl_channel, dl_entry, dl_batch, dl_row, dl_futures, m_max_channel,
                   m_loaded_read_count>>

\* load_reads, case BY_CHANNEL: load_read_channels, then the loop over the channels
LoadReadsByChannel ==
    /\ dl_pc = "start"
    /\ dl_path = "directory"
    /\ dl_order = "BY_CHANNEL"
    /\ m_max_channel' = MaxChannelOf(dl_files, m_max_channel)
    /\ dl_channel' = 0
    /\ dl_entry' = 1
    /\ dl_pc' = "by_channel"
    /\ UNCHANGED <<node_vars, encode_vars, motif_vars, dl_path, dl_order, dl_files, dl_max_reads, dl_read_list,
                   dl_batch, dl_row, dl_futures, m_loaded_read_count, dl_terminated>>

\* load_reads, case UNRESTRICTED: the loop over the entries
LoadReadsUnrestricted ==
    /\ dl_pc = "start"
    /\ dl_path = "directory"
    /\ dl_order = "UNRESTRICTED"
    /\ dl_entry' = 1
    /\ dl_pc' = "unrestricted"
    /\ UNCHANGED <<node_vars, encode_vars, motif_vars, dl_path, dl_order, dl_files, dl_max_reads, dl_read_list,
                   dl_channel, dl_batch, dl_row, dl_futures, m_max_channel,
                   m_loaded_read_count, dl_terminated>>

\* load_reads, default case: throw std::runtime_error
LoadReadsUnsupportedOrder ==
    /\ dl_pc = "start"
    /\ dl_path = "directory"
    /\ dl_order \notin {"BY_CHANNEL", "UNRESTRICTED"}
    /\ dl_pc' = "thrown"
    /\ UNCHANGED <<node_vars, encode_vars, motif_vars, dl_path, dl_order, dl_files, dl_max_reads, dl_read_list,
                   dl_channel, dl_entry, dl_batch, dl_row, dl_futures, m_max_channel,
                   m_loaded_read_count, dl_terminated>>

\* BY_CHANNEL: one step of the two nested loops.  The loop over the channels
\* ends after m_max_channel; the loop over the entries ends after the last
\* entry or by break when the limit is reached; a FAST5 entry throws; a POD5
\* entry with reads of the channel is loaded by read ids
ByChannelEntry ==
    /\ dl_pc = "by_channel"
    /\ IF dl_channel > m_max_channel
       THEN /\ dl_pc' = "terminate"
            /\ UNCHANGED <<dl_channel, dl_entry, dl_batch>>
       ELSE IF dl_entry > Len(dl_files)
               \/ LimitReached(m_loaded_read_count, MaxReadsOf(dl_max_reads))
       THEN /\ dl_channel' = dl_channel + 1
            /\ dl_entry' = 1
            /\ UNCHANGED <<dl_pc, dl_batch>>
       ELSE IF dl_files[dl_entry].ext = ".fast5"
       THEN /\ dl_pc' = "thrown"
            /\ UNCHANGED <<dl_channel, dl_entry, dl_batch>>
       ELSE IF ChannelInFile(dl_files[dl_entry], dl_channel)
       THEN /\ dl_pc' = "by_read_ids"
            /\ dl_batch' = 1
            /\ UNCHANGED <<dl_channel, dl_entry>>
       ELSE /\ dl_entry' = dl_entry + 1
            /\ UNCHANGED <<dl_pc, dl_channel, dl_batch>>
    /\ UNCHANGED <<node_vars, encode_vars, motif_vars, dl_path, dl_order, dl_files, dl_max_reads, dl_read_list,
                   dl_row, dl_futures, m_max_channel, m_loaded_read_count, dl_terminated>>

\* load_pod5_reads_from_file_by_read_ids: one step of the loop over the
\* batches: the loop ends after the last batch or by break when the limit is
\* reached; else the rows of the plan that are allowed become futures
ByReadIdsBatch ==
    /\ dl_pc = "by_read_ids"
    /\ IF dl_batch > Len(dl_files[dl_entry].batches)
          \/ LimitReached(m_loaded_read_count, MaxReadsOf(dl_max_reads))
       THEN /\ dl_pc' = "by_channel"
            /\ dl_entry' = dl_entry + 1
            /\ UNCHANGED <<dl_batch, dl_futures>>
       ELSE LET rows == RowsOfChannel(dl_files[dl_entry].batches[dl_batch], dl_channel)
                futures == FuturesOfPlan(rows, dl_read_list)
            IN /\ dl_futures' = futures
               /\ dl_pc' = IF futures = 0 THEN "by_read_ids" ELSE "by_read_ids_push"
               /\ dl_batch' = IF futures = 0 THEN dl_batch + 1 ELSE dl_batch
               /\ UNCHANGED dl_entry
    /\ UNCHANGED <<node_vars, encode_vars, motif_vars, dl_path, dl_order, dl_files, dl_max_reads, dl_read_list,
                   dl_channel, dl_row, m_max_channel, m_loaded_read_count, dl_terminated>>

\* load_pod5_reads_from_file_by_read_ids: m_read_sink.push_message of the next
\* future, m_loaded_read_count++
ByReadIdsPush ==
    /\ dl_pc = "by_read_ids_push"
    /\ m_loaded_read_count' = m_loaded_read_count + 1
    /\ dl_futures' = dl_futures - 1
    /\ IF dl_futures = 1
       THEN dl_pc' = "by_read_ids" /\ dl_batch' = dl_batch + 1
       ELSE UNCHANGED <<dl_pc, dl_batch>>
    /\ UNCHANGED <<node_vars, encode_vars, motif_vars, dl_path, dl_order, dl_files, dl_max_reads, dl_read_list,
                   dl_channel, dl_entry, dl_row, m_max_channel, dl_terminated>>

\* UNRESTRICTED: one step of the loop over the entries: the loop ends after
\* the last entry or by break when the limit is reached
UnrestrictedEntry ==
    /\ dl_pc = "unrestricted"
    /\ IF dl_entry > Len(dl_files)
          \/ LimitReached(m_loaded_read_count, MaxReadsOf(dl_max_reads))
       THEN /\ dl_pc' = "terminate"
            /\ UNCHANGED <<dl_batch, dl_row>>
       ELSE IF dl_files[dl_entry].ext = ".fast5"
       THEN /\ dl_pc' = "fast5"
            /\ dl_row' = 1
            /\ UNCHANGED dl_batch
       ELSE /\ dl_pc' = "pod5"
            /\ dl_batch' = 1
            /\ UNCHANGED dl_row
    /\ UNCHANGED <<node_vars, encode_vars, motif_vars, dl_path, dl_order, dl_files, dl_max_reads, dl_read_list,
                   dl_channel, dl_entry, dl_futures, m_max_channel, m_loaded_read_count,
                   dl_terminated>>

\* load_fast5_reads_from_file: one iteration of
\* for (i = 0; i < num_reads && m_loaded_read_count < m_max_reads; i++)
\* an allowed read is pushed and counted
Fast5Read ==
    /\ dl_pc = "fast5"
    /\ LET reads == dl_files[dl_entry].batches[1]
       IN IF dl_row <= Len(reads) /\ m_loaded_read_count < MaxReadsOf(dl_max_reads)
          THEN /\ m_loaded_read_count' =
                     IF Allowed(dl_read_list, reads[dl_row])
                     THEN m_loaded_read_count + 1 ELSE m_loaded_read_count
               /\ dl_row' = dl_row + 1
               /\ UNCHANGED <<dl_pc, dl_entry>>
          ELSE /\ dl_pc' = "unrestricted"
               /\ dl_entry' = dl_entry + 1
               /\ UNCHANGED <<dl_row, m_loaded_read_count>>
    /\ UNCHANGED <<node_vars, encode_vars, motif_vars, dl_path, dl_order, dl_files, dl_max_reads, dl_read_list,
                   dl_channel, dl_batch, dl_futures, m_max_channel, dl_terminated>>

\* load_pod5_reads_from_file: one step of the loop over the batches: the loop
\* ends after the last batch or by break when the limit is reached; else the
\* allowed rows below the capped batch_row_count become futures
Pod5Batch ==
    /\ dl_pc = "pod5"
    /\ IF dl_batch > Len(dl_files[dl_entry].batches)
          \/ LimitReached(m_loaded_read_count, MaxReadsOf(dl_max_reads))
       THEN /\ dl_pc' = "unrestricted"
            /\ dl_entry' = dl_entry + 1
            /\ UNCHANGED <<dl_batch, dl_futures>>
       ELSE LET rows == dl_files[dl_entry].batches[dl_batch]
                batch_row_count ==
                    BatchRowCount(rows, MaxReadsOf(dl_max_reads), m_loaded_read_count)
                futures == FuturesOf(rows, batch_row_count, dl_read_list)
            IN /\ dl_futures' = futures
               /\ dl_pc' = IF futures = 0 THEN "pod5" ELSE "pod5_push"
               /\ dl_batch' = IF futures = 0 THEN dl_batch + 1 ELSE dl_batch
               /\ UNCHANGED dl_entry
    /\ UNCHANGED <<node_vars, encode_vars, motif_vars, dl_path, dl_order, dl_files, dl_max_reads, dl_read_list,
                   dl_channel, dl_row, m_max_channel, m_loaded_read_count, dl_terminated>>

\* load_pod5_reads_from_file: m_read_sink.push_message of the next future,
\* m_loaded_read_count++
Pod5Push ==
    /\ dl_pc = "pod5_push"
    /\ m_loaded_read_count' = m_loaded_read_count + 1
    /\ dl_futures' = dl_futures - 1
    /\ IF dl_futures = 1
       THEN dl_pc' = "pod5" /\ dl_batch' = dl_batch + 1
       ELSE UNCHANGED <<dl_pc, dl_batch>>
    /\ UNCHANGED <<node_vars, encode_vars, motif_vars, dl_path, dl_order, dl_files, dl_max_reads, dl_read_list,
                   dl_channel, dl_entry, dl_row, m_max_channel, dl_terminated>>

\* load_reads: the traversal has returned: m_read_sink.terminate()
LoadReadsTerminate ==
    /\ dl_pc = "terminate"
    /\ dl_terminated' = dl_terminated + 1
    /\ dl_pc' = "returned"
    /\ UNCHANGED <<node_vars, encode_vars, motif_vars, dl_path, dl_order, dl_files, dl_max_reads, dl_read_list,
                   dl_channel, dl_entry, dl_batch, dl_row, dl_futures, m_max_channel,
                   m_loaded_read_count>>

LoaderNext ==
    \/ LoadReadsBadPath
    \/ LoadReadsByChannel
    \/ LoadReadsUnrestricted
    \/ LoadReadsUnsupportedOrder
    \/ ByChannelEntry
    \/ ByReadIdsBatch
    \/ ByReadIdsPush
    \/ UnrestrictedEntry
    \/ Fast5Read
    \/ Pod5Batch
    \/ Pod5Push
    \/ LoadReadsTerminate

(***************************************************************************)
(* stereo_encode after the alignment has been trimmed and found long        *)
(* enough: the move tables are expanded, the signal cursors are moved to    *)
(* the first aligned base, and the columns are walked.  The alignment is    *)
(* read column by column, the sequences base by base.  A move table starts  *)
(* with a move, a read has one base per move, and the raw signal has about  *)
(* stride samples per entry of the move table.                              *)
(***************************************************************************)
kAlignMatch == 0

kAlignInsertionToTarget == 1

kAlignInsertionToQuery == 2

kAlignMismatch == 3

stride == 5

kFeatureTemplateFirstNucleotide == 2

kFeatureComplementFirstNucleotide == 6

AlignmentColumns == {kAlignMatch, kAlignInsertionToTarget, kAlignInsertionToQuery, kAlignMismatch}

Nucleotides == {"A", "C", "G", "T"}

\* the character code of a nucleotide letter
CharCode(nucleotide) ==
    CASE nucleotide = "A" -> 65
      [] nucleotide = "C" -> 67
      [] nucleotide = "G" -> 71
      [] nucleotide = "T" -> 84

MoveTables == { mv \in UNION { [1..n -> {0, 1}] : n \in 1..MaxMoves } : mv[1] = 1 }

RawSizes(moves) == (stride * Len(moves) - RawSlack)..(stride * Len(moves) + RawSlack)

\* the number of bases of a read: the sum of its move table
NumMoves(moves) == SeqSum(moves)

Bit(n, i) == (n \div (2 ^ i)) % 2

\* 0b11 & (a ^ b)
XorLowBits(a, b) == ((Bit(a, 0) + Bit(b, 0)) % 2) + 2 * ((Bit(a, 1) + Bit(b, 1)) % 2)

NucleotideFeatureOffsetShiftOnly(nucleotide) == (nucleotide \div 4) % 4

\* 0b11 & (nucleotide >> 2 ^ nucleotide >> 1)
nucleotide_feature_offset(nucleotide) == XorLowBits(nucleotide \div 4, nucleotide \div 2)

\* every move followed by stride - 1 zeros
Expanded(moves) ==
    [k \in 1..(stride * Len(moves)) |->
        IF (k - 1) % stride = 0 THEN moves[((k - 1) \div stride) + 1] ELSE 0]

\* extra_moves entries are popped from the back
WithoutExtraMoves(moves_expanded, raw_size) ==
    IF Len(moves_expanded) > raw_size THEN SubSeq(moves_expanded, 1, raw_size)
    ELSE moves_expanded

Reversed(s) == [k \in 1..Len(s) |-> s[Len(s) + 1 - k]]

TemplateMovesExpanded(moves, raw_size) == WithoutExtraMoves(Expanded(moves), raw_size)

\* push_back(1), std::reverse, pop_back()
ComplementMovesExpanded(moves, raw_size) ==
    LET reversed == Reversed(Append(WithoutExtraMoves(Expanded(moves), raw_size), 1))
    IN SubSeq(reversed, 1, Len(reversed) - 1)

\* while (moves_seen < cursor + 1) { signal_cursor++; moves_seen += moves_expanded[signal_cursor]; }
RECURSIVE SignalCursorOf(_, _, _, _)
SignalCursorOf(moves_expanded, signal_cursor, moves_seen, goal) ==
    IF moves_seen < goal
    THEN SignalCursorOf(moves_expanded, signal_cursor + 1,
                        moves_seen + moves_expanded[signal_cursor + 2], goal)
    ELSE signal_cursor

\* sample_count: std::memchr(start_ptr, 1, max_signal_length) looks at
\* max_signal_length bytes from &moves_expanded[signal_cursor], with
\* max_signal_length = moves_expanded.size().  A flag inside the vector gives
\* its distance; when none follows the cursor, the bytes behind the vector are
\* read: a 1 may be met at any of them, or none (sample_count = max_signal_length)
SampleCounts(moves_expanded, signal_cursor) ==
    LET flags == { j \in signal_cursor..(Len(moves_expanded) - 1) : moves_expanded[j + 1] = 1 }
    IN IF flags # {} THEN {SetMin(flags) - signal_cursor}
       ELSE Max(0, Len(moves_expanded) - signal_cursor)..Len(moves_expanded)

\* std::max(template_segment_length, complement_segment_length)
TotalSegmentLength(template_segment_length, complement_segment_length) ==
    Max(template_segment_length, complement_segment_length)

\* tmp.index({Slice(None), Slice(None, stereo_global_cursor)}): a slice ends at
\* the end of the dimension at the latest
SlicedSize(size, global_cursor) == Min(size, global_cursor)

NoColumn ==
    [number |-> 0, target_cursor |-> 0, query_cursor |-> 0,
     op |-> -1, start_ts |-> 0, template_segment_length |-> 0,
     complement_segment_length |-> 0, template_nucleotide |-> "", template_row |-> 0,
     complement_nucleotide |-> "", complement_row |-> 0]

EncodeInit ==
    /\ se_template_moves \in MoveTables
    /\ se_complement_moves \in MoveTables
    /\ se_template_raw_size \in RawSizes(se_template_moves)
    /\ se_complement_raw_size \in RawSizes(se_complement_moves)
    /\ se_pc = "start"
    /\ target_cursor = 0
    /\ query_cursor = 0
    /\ template_signal_cursor = 0
    /\ complement_signal_cursor = 0
    /\ stereo_global_cursor = 0
    /\ se_markers = <<>>
    /\ se_column = NoColumn
    /\ se_output_size = 0

\* stereo_encode is not called
EncodeIdle ==
    /\ se_template_moves = <<1>>
    /\ se_complement_moves = <<1>>
    /\ se_template_raw_size = stride
    /\ se_complement_raw_size = stride
    /\ se_pc = "idle"
    /\ target_cursor = 0
    /\ query_cursor = 0
    /\ template_signal_cursor = 0
    /\ complement_signal_cursor = 0
    /\ stereo_global_cursor = 0
    /\ se_markers = <<>>
    /\ se_column = NoColumn
    /\ se_output_size = 0

\* lines 57-154: the trimmed alignment gives the first target and query base;
\* tmp is allocated with max_size columns; the signal cursors are moved to the
\* first sample of the two bases
EncodeStart(first_target, first_query) ==
    /\ se_pc = "start"
    /\ first_target \in 0..(NumMoves(se_template_moves) - 1)
    /\ first_query \in 0..(NumMoves(se_complement_moves) - 1)
    /\ target_cursor' = first_target
    /\ query_cursor' = first_query
    /\ se_output_size' = se_template_raw_size + se_complement_raw_size
    /\ LET template_moves_expanded ==
               TemplateMovesExpanded(se_template_moves, se_template_raw_size)
           complement_moves_expanded ==
               ComplementMovesExpanded(se_complement_moves, se_complement_raw_size)
       IN /\ template_signal_cursor' =
                SignalCursorOf(template_moves_expanded, 0, template_moves_expanded[1],
                               first_target + 1)
          /\ complement_signal_cursor' =
                SignalCursorOf(complement_moves_expanded, 0, se_complement_moves[1],
                               first_query + 1)
    /\ stereo_global_cursor' = 0
    /\ se_pc' = "walk"
    /\ UNCHANGED <<node_vars, loader_vars, motif_vars, se_template_moves, se_complement_moves,
                   se_template_raw_size, se_complement_raw_size, se_markers, se_column>>

\* lines 182-287: one iteration of the loop over the alignment columns, for the
\* column result.alignment[i] = op and the bases under the two cursors
EncodeColumn(op, template_nucleotide, complement_nucleotide) ==
    /\ se_pc = "walk"
    /\ op \in AlignmentColumns
    /\ op # kAlignInsertionToQuery => target_cursor < NumMoves(se_template_moves)
    /\ op # kAlignInsertionToTarget => query_cursor < NumMoves(se_complement_moves)
    /\ op = kAlignInsertionToQuery => template_nucleotide = ""
    /\ op # kAlignInsertionToQuery => template_nucleotide \in Nucleotides
    /\ op = kAlignInsertionToTarget => complement_nucleotide = ""
    /\ op # kAlignInsertionToTarget => complement_nucleotide \in Nucleotides
    /\ LET template_moves_expanded ==
               TemplateMovesExpanded(se_template_moves, se_template_raw_size)
           complement_moves_expanded ==
               ComplementMovesExpanded(se_complement_moves, se_complement_raw_size)
       IN \E template_sample_count \in
                 IF op # kAlignInsertionToQuery
                 THEN SampleCounts(template_moves_expanded, template_signal_cursor + 1)
                 ELSE {0},
             complement_sample_count \in
                 IF op # kAlignInsertionToTarget
                 THEN SampleCounts(complement_moves_expanded, complement_signal_cursor + 1)
                 ELSE {0} :
             LET template_segment_length ==
                     IF op # kAlignInsertionToQuery THEN 1 + template_sample_count ELSE 0
                 complement_segment_length ==
                     IF op # kAlignInsertionToTarget THEN 1 + complement_sample_count ELSE 0
                 total_segment_length ==
                     TotalSegmentLength(template_segment_length, complement_segment_length)
             IN /\ template_signal_cursor' = template_signal_cursor + template_segment_length
                /\ complement_signal_cursor' =
                      complement_signal_cursor + complement_segment_length
                /\ target_cursor' =
                      IF op # kAlignInsertionToQuery THEN target_cursor + 1 ELSE target_cursor
                /\ query_cursor' =
                      IF op # kAlignInsertionToTarget THEN query_cursor + 1 ELSE query_cursor
                /\ se_markers' = Append(se_markers, stereo_global_cursor)
                /\ stereo_global_cursor' = stereo_global_cursor + total_segment_length
                /\ se_column' =
                      [number |-> se_column.number + 1,
                       target_cursor |-> target_cursor, query_cursor |-> query_cursor,
                       op |-> op, start_ts |-> stereo_global_cursor,
                       template_segment_length |-> template_segment_length,
                       complement_segment_length |-> complement_segment_length,
                       template_nucleotide |-> template_nucleotide,
                       template_row |->
                           IF op # kAlignInsertionToQuery
                           THEN kFeatureTemplateFirstNucleotide
                                + nucleotide_feature_offset(CharCode(template_nucleotide))
                           ELSE 0,
                       complement_nucleotide |-> complement_nucleotide,
                       complement_row |->
                           IF op # kAlignInsertionToTarget
                           THEN kFeatureComplementFirstNucleotide
                                + nucleotide_feature_offset(CharCode(complement_nucleotide))
                           ELSE 0]
    /\ UNCHANGED <<node_vars, loader_vars, motif_vars, se_template_moves, se_complement_moves,
                   se_template_raw_size, se_complement_raw_size, se_pc, se_output_size>>

\* lines 289-297: i has reached end_alignment_position; tmp is cut at the
\* global cursor
EncodeFinish ==
    /\ se_pc = "walk"
    /\ se_markers # <<>>
    /\ se_output_size' = SlicedSize(se_output_size, stereo_global_cursor)
    /\ se_pc' = "done"
    /\ UNCHANGED <<node_vars, loader_vars, motif_vars, se_template_moves, se_complement_moves,
                   se_template_raw_size, se_complement_raw_size, target_cursor,
                   query_cursor, template_signal_cursor, complement_signal_cursor,
                   stereo_global_cursor, se_markers, se_column>>

EncodeNext ==
    \/ \E first_target, first_query \in 0..(MaxMoves - 1) :
          EncodeStart(first_target, first_query)
    \/ \E op \in AlignmentColumns, template_nucleotide, complement_nucleotide \in Nucleotides \cup {""} :
          EncodeColumn(op, template_nucleotide, complement_nucleotide)
    \/ EncodeFinish

(***************************************************************************)
(* RemoraCaller::get_motif_hits: the positions of the motif in a sequence.  *)
(* Positions are size_t values, 0-based; the arithmetic of the loop bound   *)
(* is unsigned and wraps at SizeModulus.                                    *)
(***************************************************************************)
Bases == {"A", "C"}

Sequences(max_len) == UNION { [1..n -> Bases] : n \in 0..max_len }

\* std::string::npos, the largest size_t
npos == SizeModulus - 1

\* std::string::compare(pos, motif.size(), motif) == 0 for a pos where
\* pos + motif.size() <= seq.size()
OccursAt(seq, motif, pos) ==
    \A k \in 1..Len(motif) : seq[pos + k] = motif[k]

\* seq.find(motif, pos): the first position not before pos where the motif
\* occurs, npos when there is none
Find(seq, motif, pos) ==
    LET found == { p \in pos..(Len(seq) - Len(motif)) : OccursAt(seq, motif, p) }
    IN IF found = {} THEN npos ELSE SetMin(found)

LoopBoundWithoutLast(seq_size, kmer_len) == SizeSub(seq_size, kmer_len)

\* seq.size() - kmer_len + 1
LoopBound(seq_size, kmer_len) == (SizeSub(seq_size, kmer_len) + 1) % SizeModulus

MotifInit ==
    /\ mh_seq \in Sequences(MaxSeqLen)
    /\ mh_motif \in Sequences(MaxMotifLen)
    /\ mh_motif_offset \in 0..Max(0, Len(mh_motif) - 1)
    /\ mh_pc = "loop"
    /\ search_pos = 0
    /\ context_hits = <<>>

\* get_motif_hits is not called
MotifIdle ==
    /\ mh_seq = <<>>
    /\ mh_motif = <<>>
    /\ mh_motif_offset = 0
    /\ mh_pc = "idle"
    /\ search_pos = 0
    /\ context_hits = <<>>

\* lines 319-325: one iteration of the while loop, with a hit
MotifHit ==
    /\ mh_pc = "loop"
    /\ search_pos < LoopBound(Len(mh_seq), Len(mh_motif))
    /\ Find(mh_seq, mh_motif, search_pos) # npos
    /\ context_hits' =
          Append(context_hits,
                 (Find(mh_seq, mh_motif, search_pos) + mh_motif_offset) % SizeModulus)
    /\ search_pos' = (Find(mh_seq, mh_motif, search_pos) + 1) % SizeModulus
    /\ UNCHANGED <<node_vars, loader_vars, encode_vars, mh_seq, mh_motif,
                   mh_motif_offset, mh_pc>>

\* lines 319-325: one iteration of the while loop, find gives npos
MotifMiss ==
    /\ mh_pc = "loop"
    /\ search_pos < LoopBound(Len(mh_seq), Len(mh_motif))
    /\ Find(mh_seq, mh_motif, search_pos) = npos
    /\ search_pos' = npos
    /\ UNCHANGED <<node_vars, loader_vars, encode_vars, mh_seq, mh_motif,
                   mh_motif_offset, mh_pc, context_hits>>

\* lines 319, 326: the loop condition is false, context_hits is returned
MotifReturn ==
    /\ mh_pc = "loop"
    /\ ~(search_pos < LoopBound(Len(mh_seq), Len(mh_motif)))
    /\ mh_pc' = "returned"
    /\ UNCHANGED <<node_vars, loader_vars, encode_vars, mh_seq, mh_motif,
                   mh_motif_offset, search_pos, context_hits>>

MotifNext ==
    \/ MotifHit
    \/ MotifMiss
    \/ MotifReturn

KernelIdle == LoaderIdle /\ EncodeIdle /\ MotifIdle

\* the tagger node idle, under the encoder's specification
TaggerIdle ==
    /\ TaggerInit
    /\ fam = [t \in Tags |-> [split |-> 1, ndcp |-> <<0>>, nd |-> 0]]

\* the encoder node idle, under the tagger's specification
StereoIdle ==
    /\ StereoInit
    /\ seq_len_c = [p \in Pairs |-> 1000]
    /\ align_span = [p \in Pairs |-> <<0, 900>>]

\* the encoder's specification: the loader, the encoder's workers, its destructor
\* the nodes idle, under the specification of a function
NodesIdle == TaggerIdle /\ StereoIdle /\ GraphIdle /\ TaggingIdle

\* DataLoader::load_reads on its own
InitLoaderSpec == LoaderInit /\ NodesIdle /\ EncodeIdle /\ MotifIdle

\* stereo_encode on its own
InitEncodeSpec == EncodeInit /\ NodesIdle /\ LoaderIdle /\ MotifIdle

EncodeSpec == InitEncodeSpec /\ [][EncodeNext]_vars

\* get_motif_hits on its own; the calling thread runs the loop to its end
InitMotifSpec == MotifInit /\ NodesIdle /\ LoaderIdle /\ EncodeIdle

MotifSpec == InitMotifSpec /\ [][MotifNext]_vars /\ WF_vars(MotifNext)

LoaderSpec == InitLoaderSpec /\ [][LoaderNext]_vars

InitStereoSpec == StereoInit /\ TaggerIdle /\ GraphIdle /\ TaggingIdle /\ KernelIdle

StereoSpec == InitStereoSpec /\ [][StereoNext]_vars

\* the encoder when its upstream may deliver a read of a pair twice; the pairs
\* have equal lengths and a long alignment
InitStereoRedeliverSpec ==
    /\ InitStereoSpec
    /\ seq_len_c = [p \in Pairs |-> 1000]
    /\ align_span = [p \in Pairs |-> <<0, 900>>]

StereoRedeliverNext ==
    \/ StereoNext
    \/ \E id \in ReadIds \ {UnpairedId} : Redeliver(id)

StereoRedeliverSpec == InitStereoRedeliverSpec /\ [][StereoRedeliverNext]_vars

TaggerNext ==
    \/ \E r \in AllReads(fam) : Push(r)
    \/ \E w \in Workers : WorkerStep(w)
    \/ CheckStep
    \/ CheckSpuriousWake
    \/ TermStep

\* the families of the two-run specification: a two-fragment tag with one
\* duplex read, one-fragment tags with at most one duplex read each
LifecycleFamilies ==
    { f \in Families :
        /\ f[1].split = MaxSplit /\ f[1].nd = 1
        /\ \A t \in Tags \ {1} : f[t].split = 1 /\ f[t].nd <= 1 }

\* the tagger's specification: the upstream, the workers, the reconciliation
\* thread and terminate_impl
InitTaggerSpec == TaggerInit /\ StereoIdle /\ GraphIdle /\ TaggingIdle /\ KernelIdle

TaggerSpec == InitTaggerSpec /\ [][TaggerNext]_vars

\* one node at work per behaviour: the tagger runs while the encoder stays as
\* constructed, or the encoder runs while the tagger stays as constructed
TaggerAtRest ==
    /\ fam = [t \in Tags |-> [split |-> 1, ndcp |-> <<0>>, nd |-> 0]]
    /\ pushed = {}
    /\ t_pc = "idle"
    /\ c_pc = "loop"

StereoAtRest ==
    /\ seq_len_c = [p \in Pairs |-> 1000]
    /\ align_span = [p \in Pairs |-> <<0, 900>>]
    /\ l_pc = "start"

InitPipelineSpec ==
    /\ TaggerInit
    /\ StereoInit
    /\ GraphIdle
    /\ TaggingIdle
    /\ KernelIdle
    /\ TaggerAtRest \/ StereoAtRest

PipelineNext ==
    \/ StereoAtRest /\ TaggerNext
    \/ TaggerAtRest /\ StereoNext

PipelineSpec == InitPipelineSpec /\ [][PipelineNext]_vars

\* the tagger over two runs: a message that is not a read may be pushed, and
\* restart() may be called once terminate_impl has returned
InitTaggerLifecycleSpec ==
    TaggerInit /\ StereoIdle /\ GraphIdle /\ TaggingIdle /\ KernelIdle
    /\ fam \in LifecycleFamilies

\* the tagger when its upstream gives the reads of every source read the same
\* read_tag: every source read has one fragment
SharedTagFamilies == { f \in Families : \A t \in Tags : f[t].split = 1 }

InitTaggerSharedTagSpec ==
    TaggerInit /\ StereoIdle /\ GraphIdle /\ TaggingIdle /\ KernelIdle
    /\ fam \in SharedTagFamilies

TaggerSharedTagNext ==
    \/ \E r \in AllReads(fam) : Push(WithTag(r, 1))
    \/ \E w \in Workers : WorkerStep(w)
    \/ CheckStep
    \/ CheckSpuriousWake
    \/ TermStep

TaggerSharedTagSpec == InitTaggerSharedTagSpec /\ [][TaggerSharedTagNext]_vars

\* the pipeline builders on their own
InitBuildSpec == GraphInit /\ TaggerIdle /\ StereoIdle /\ TaggingIdle /\ KernelIdle

BuildSpec == InitBuildSpec /\ [][BuildNext]_vars

\* DuplexReadTaggingNode under its test
InitTaggingSpec == TaggingInit /\ TaggerIdle /\ StereoIdle /\ GraphIdle /\ KernelIdle

TaggingSpec == InitTaggingSpec /\ [][TaggingNext]_vars

TaggerLifecycleNext ==
    \/ TaggerNext
    \/ PushOther
    \/ Restart

TaggerLifecycleSpec == InitTaggerLifecycleSpec /\ [][TaggerLifecycleNext]_vars

(***************************************************************************)
(* The tagger under fair scheduling: every thread that can take a step     *)
(* eventually takes one.  The upstream need not push, terminate_impl need   *)
(* not be called, and a spurious wake-up need not happen, so these carry   *)
(* no fairness.  The families are those of a two-fragment tag with one     *)
(* duplex read and of one-fragment tags without a duplex read.             *)
(***************************************************************************)
FairFamilies ==
    { f \in Families :
        /\ f[1].split = MaxSplit /\ f[1].nd = 1
        /\ \A t \in Tags \ {1} : f[t].split = 1 /\ f[t].nd = 0 }

InitTaggerFairSpec ==
    TaggerInit /\ StereoIdle /\ GraphIdle /\ TaggingIdle /\ KernelIdle
    /\ fam \in FairFamilies

TaggerFairness ==
    /\ \A w \in Workers : WF_vars(WorkerStep(w))
    /\ WF_vars(CheckStep)
    /\ WF_vars(TermJoinWorkers \/ TermStore \/ TermNotify \/ TermJoinDuplex)

TaggerFairSpec == InitTaggerFairSpec /\ [][TaggerNext]_vars /\ TaggerFairness

(***************************************************************************)
(* Claims.                                                                 *)
(***************************************************************************)
TaggerTerminated ==
    /\ \A w \in Workers : w_pc[w] = "done"
    /\ c_pc = "done"
    /\ t_pc = "terminated"

\* C1: once the input of the node is closed, every worker thread leaves its pop
\* loop, the reconciliation thread exits and the node reaches TERMINATED; no
\* thread stays blocked forever.
C1_ClosedLeadsToTerminated == in_terminated ~> TaggerTerminated

LogIndexes(op) == { i \in 1..Len(sink_log) : sink_log[i].op = op }

\* C2: over the whole life of the encoder node (last-worker exit and destructor
\* taken together) m_sink.terminate() is invoked exactly once.
C2_SinkTerminateInvokedOnce ==
    d_pc = "destroyed" => Cardinality(LogIndexes("terminate")) = 1

NoPushAfterTerminate ==
    \A i \in LogIndexes("terminate"), j \in LogIndexes("push") : j < i

\* C3: no message is enqueued on a sink after the sink has been closed: every
\* push_message of an encoder worker precedes every terminate of its sink, and
\* load_reads pushes nothing once it has terminated its sink.
C3_NoMessageAfterClose ==
    /\ []NoPushAfterTerminate
    /\ [][l_pc = "returned" => (l_loaded' = l_loaded /\ Len(e_queue') <= Len(e_queue))]_vars

C3_Witness ==
    /\ LogIndexes("push") # {}
    /\ LogIndexes("terminate") # {}
    /\ l_pc = "returned"
    /\ l_loaded # {}

PushesOf(id) == Cardinality({ i \in LogIndexes("push") : sink_log[i].read_id = id })

PairEncodable(p) ==
    /\ ~LengthRatioTooLarge(1000, seq_len_c[p])
    /\ ConsensusPossible(align_span[p][1], align_span[p][2])

InEncoderHands(id) ==
    \/ \E i \in 1..Len(e_queue) : e_queue[i].read_id = id
    \/ \E w \in Workers : e_read[w].read_id = id

PairProcessed(p) ==
    /\ {TemplateId(p), ComplementId(p)} \subseteq l_loaded
    /\ ~InEncoderHands(TemplateId(p))
    /\ ~InEncoderHands(ComplementId(p))

\* C10: a template T and its complement C, each delivered once, whose encode
\* succeeds yield exactly one merged record, with id T;C, whichever arrives
\* first and whichever workers process them.
C10_OneMergedRecordPerPair ==
    \A p \in Pairs :
        PairEncodable(p) =>
            /\ PushesOf(<<TemplateId(p), ComplementId(p)>>) <= 1
            /\ PairProcessed(p) => PushesOf(<<TemplateId(p), ComplementId(p)>>) = 1
            /\ \A i \in LogIndexes("push") :
                 (sink_log[i].read_id[1] \in {TemplateId(p), ComplementId(p)}
                    \/ sink_log[i].read_id[2] \in {TemplateId(p), ComplementId(p)})
                 => sink_log[i].read_id = <<TemplateId(p), ComplementId(p)>>

C10_Witness ==
    /\ \A p \in Pairs : PairProcessed(p) /\ PairEncodable(p)
    /\ \E i \in LogIndexes("push") : sink_log[i].by = "template"
    /\ \E i \in LogIndexes("push") : sink_log[i].by = "complement"

MergedId(p) == <<TemplateId(p), ComplementId(p)>>

\* the number of times a read has been delivered to the node
Deliveries(id) == (IF id \in l_loaded THEN 1 ELSE 0) + (IF id \in l_again THEN 1 ELSE 0)

\* C11: if the same (template, complement) pair is delivered twice to the node,
\* at most one merged record for the pair is ever emitted.
C11_NoDoubleEmitOnRedelivery ==
    \A p \in Pairs : PushesOf(MergedId(p)) <= 1

\* C12: outside the cache critical section read_cache holds an entry under its
\* own read id only, never both members of a pair at once, and the mutex is
\* free; a cached read is removed when its partner takes it, so the reads of a
\* pair are taken at most once per delivery of the pair.
C12_CacheInvariant ==
    /\ m_read_cache_mutex = 0
    /\ \A id \in DOMAIN read_cache : read_cache[id].read_id = id
    /\ \A p \in Pairs :
         /\ ~(HasKey(read_cache, TemplateId(p)) /\ HasKey(read_cache, ComplementId(p)))
         /\ taken[TemplateId(p)] + taken[ComplementId(p)]
                <= Min(Deliveries(TemplateId(p)), Deliveries(ComplementId(p)))

\* a pair delivered twice and matched twice, the cache empty again, and a
\* template and a complement in two workers' hands before the critical section
C12_Witness ==
    /\ \E p \in Pairs : taken[TemplateId(p)] + taken[ComplementId(p)] = 2
    /\ read_cache = EmptyMap
    /\ \E p \in Pairs : \E w1 \in Workers : \E w2 \in Workers :
         /\ e_pc[w1] = "cache" /\ e_read[w1].read_id = TemplateId(p)
         /\ e_pc[w2] = "cache" /\ e_read[w2].read_id = ComplementId(p)

\* |len(T) - len(C)| / max(len(T), len(C)) > 0.05, in integers (0.05 = 1/20)
RatioAboveLimit(p) ==
    LET t_len == SeqLenOf(seq_len_c)[TemplateId(p)]
        c_len == SeqLenOf(seq_len_c)[ComplementId(p)]
        diff == IF t_len >= c_len THEN t_len - c_len ELSE c_len - t_len
        longest == IF t_len >= c_len THEN t_len ELSE c_len
    IN 20 * diff > longest

\* C13: a pair whose length ratio is above 0.05 produces no record; a pair at
\* or below 0.05 is not rejected by the ratio check (it is emitted when its
\* alignment allows a consensus).
C13_LengthRatioCheck ==
    \A p \in Pairs :
        /\ RatioAboveLimit(p) => PushesOf(MergedId(p)) = 0
        /\ (~RatioAboveLimit(p) /\ PairProcessed(p)
              /\ ConsensusPossible(align_span[p][1], align_span[p][2]))
             => PushesOf(MergedId(p)) = 1

\* one pair above the limit, processed without a record, and one pair exactly
\* at the limit, processed with its record
C13_Witness ==
    /\ d_pc = "destroyed"
    /\ \E p \in Pairs :
         seq_len_c[p] = 940 /\ PairProcessed(p) /\ PushesOf(MergedId(p)) = 0
    /\ \E p \in Pairs :
         seq_len_c[p] = 950 /\ PairProcessed(p) /\ PushesOf(MergedId(p)) = 1

\* C14: the trimmed-span check drops a pair exactly when the span is empty or
\* inverted or has fewer than 200 columns: a processed pair that passes the
\* ratio check and has a non-inverted span of 200 or more columns is emitted.
C14_SpanOf200ColumnsKept ==
    \A p \in Pairs :
        (/\ PairProcessed(p)
         /\ ~RatioAboveLimit(p)
         /\ align_span[p][1] < align_span[p][2]
         /\ align_span[p][2] - align_span[p][1] >= 200)
        => PushesOf(MergedId(p)) = 1

\* C15: the node's output holds merged records only, each the record of a pair
\* of the pairing list whose two reads were delivered and whose encode
\* succeeded; a read without partner, a read whose partner never arrives and
\* the reads of a rejected pair produce nothing, and no worker stops on them.
C15_OnlyMergedRecords ==
    /\ \A i \in LogIndexes("push") :
         \E p \in Pairs :
            /\ sink_log[i].read_id = MergedId(p)
            /\ {TemplateId(p), ComplementId(p)} \subseteq l_loaded
            /\ PairEncodable(p)
    /\ \A w \in Workers :
         e_pc[w] = "pop" => (e_read[w] = NoEncRead /\ e_partner_read[w] = NoEncRead)
    /\ \A w \in Workers : e_pc[w] \in {"decrement", "terminate", "done"} => e_queue = <<>>

\* the node destroyed after it received a read without partner, both reads of a
\* rejected pair and one read of the other pair: every read was consumed,
\* the sink received no record
C15_Witness ==
    /\ d_pc = "destroyed"
    /\ UnpairedId \in l_loaded
    /\ e_queue = <<>>
    /\ \E p \in Pairs : PairProcessed(p) /\ ~PairEncodable(p)
    /\ \E p \in Pairs :
         /\ TemplateId(p) \in l_loaded
         /\ ComplementId(p) \notin l_loaded
         /\ HasKey(read_cache, TemplateId(p))
    /\ LogIndexes("push") = {}

(***************************************************************************)
(* Claims on SubreadTaggerNode.                                            *)
(***************************************************************************)
SeqToSet(q) == { q[i] : i \in 1..Len(q) }

\* a read is identified by its tag, its kind and its number in the family
Key(r) == <<r.tag, r.is_duplex, r.idx>>

Keys(S) == { Key(r) : r \in S }

\* the reads of tag t that a worker has ingested into the ledger
Ingested(t) ==
    { r \in pushed : r.tag = t } \
        (SeqToSet(in_queue) \cup { w_msg[w] : w \in { x \in Workers : w_pc[x] = "have" } })

ExpectedDuplex(t) == SeqSum(fam[t].ndcp)

\* the family of t is complete and still waits in the ledger
CompleteInLedger(t) ==
    /\ HasKey(m_full_subread_groups, t)
    /\ Len(Lookup(m_duplex_reads, t, <<>>)) = m_full_subread_groups[t].num_expected_duplex

\* the reads of t extracted by the reconciliation thread and not sent yet
InCheckerHands(t) == { r \in SeqToSet(c_sub) \cup SeqToSet(c_dup) : r.tag = t }

\* the reads of t extracted by a worker and not sent yet
InWorkerHands(t) ==
    UNION { { r \in SeqToSet(w_ext[w]) : r.tag = t } :
            w \in { x \in Workers : w_pc[x] = "send" } }

SimplexOf(S) == { r \in S : ~r.is_duplex }

DuplexOf(S) == { r \in S : r.is_duplex }

FullyEmitted(t) == Len(sink[t]) = fam[t].split + fam[t].nd

\* C4: when the node has terminated, every family that was complete (simplex
\* group at split_count, expected_duplex duplex reads ingested) has been
\* emitted: no complete family is left in the ledger.
C4_CompleteFamiliesEmittedAtShutdown ==
    t_pc = "terminated" => \A t \in Tags : ~CompleteInLedger(t)

\* C5: a record of a tag is sent only after the tag's simplex group has reached
\* split_count and either expected_duplex is 0 or exactly expected_duplex
\* duplex reads were buffered for the tag; this holds in every state, shutdown
\* included.
C5_NoEmissionBeforeComplete ==
    \A t \in Tags :
        (sink[t] # <<>> \/ InCheckerHands(t) # {} \/ InWorkerHands(t) # {}) =>
            /\ Cardinality(SimplexOf(Ingested(t))) = fam[t].split
            /\ \/ /\ ExpectedDuplex(t) = 0
                  /\ DuplexOf(SeqToSet(sink[t]) \cup InCheckerHands(t)) = {}
               \/ /\ ExpectedDuplex(t) > 0
                  /\ InWorkerHands(t) = {}
                  /\ Cardinality(DuplexOf(SeqToSet(sink[t]) \cup InCheckerHands(t)))
                        = ExpectedDuplex(t)

C5_Witness ==
    /\ t_pc = "terminated"
    /\ \E t \in Tags : FullyEmitted(t) /\ ExpectedDuplex(t) > 0
    /\ \E t \in Tags : sink[t] = <<>> /\ Ingested(t) # {}

\* C6: while the node is running and threads are scheduled fairly, a family that
\* is complete in the ledger is eventually emitted (unless m_terminate is set
\* first), whatever the arrival order and the interleaving.
C6_CompleteFamilyEventuallyEmitted ==
    \A t \in Tags : CompleteInLedger(t) ~> (FullyEmitted(t) \/ m_terminate)

\* a family emitted while running whose duplex read was buffered before the
\* last simplex fragment was ingested
C6_Witness ==
    /\ ~m_terminate
    /\ t_pc = "idle"
    /\ \E t \in Tags :
         /\ FullyEmitted(t)
         /\ ExpectedDuplex(t) > 0
         /\ \E i \in 1..Len(sink[t]) : ~sink[t][i].is_duplex /\ sink[t][i].arr > 0

\* C7: a family emitted by the reconciliation loop consists of every buffered
\* simplex fragment and every buffered duplex read of the tag, simplex_count +
\* duplex_count records, each with split_count = simplex_count + duplex_count.
C7_FamilyEmittedWholeWithTotal ==
    \A t \in Tags :
        (ExpectedDuplex(t) > 0 /\ (sink[t] # <<>> \/ InCheckerHands(t) # {})) =>
            LET all == SeqToSet(sink[t]) \cup InCheckerHands(t)
                total == Cardinality(SimplexOf(all)) + Cardinality(DuplexOf(all))
            IN /\ Keys(all) = Keys(Ingested(t))
               /\ Cardinality(all) = Len(sink[t]) + Cardinality(InCheckerHands(t))
               /\ Cardinality(Keys(all)) = Cardinality(all)
               /\ ~HasKey(m_full_subread_groups, t)
               /\ ~HasKey(m_duplex_reads, t)
               /\ \A i \in 1..Len(sink[t]) : sink[t][i].split_count = total
               /\ FullyEmitted(t) <=> InCheckerHands(t) = {}

C7_Witness ==
    \E t \in Tags :
        /\ FullyEmitted(t)
        /\ fam[t].split = 2
        /\ fam[t].nd = 2

\* C8: in an emitted family a duplex read gets subread_id = simplex_count + i,
\* i its 0-based position among the family's duplex reads in arrival order; the
\* duplex subread_ids are the consecutive values simplex_count ..
\* simplex_count + duplex_count - 1.
C8_DuplexSubreadIds ==
    \A t \in Tags :
        LET simplex_count == fam[t].split
            dups == { i \in 1..Len(sink[t]) : sink[t][i].is_duplex }
        IN /\ \A i \in dups : sink[t][i].subread_id = simplex_count + sink[t][i].arr
           /\ \A i \in dups : \A j \in dups :
                (i < j) => sink[t][j].subread_id = sink[t][i].subread_id + (j - i)
           /\ FullyEmitted(t) =>
                { sink[t][i].subread_id : i \in dups }
                    = simplex_count..(simplex_count + Cardinality(dups) - 1)

\* two duplex reads emitted, the one numbered 2 having arrived first
C8_Witness ==
    \E t \in Tags :
        /\ FullyEmitted(t)
        /\ \E i \in 1..Len(sink[t]) :
             /\ sink[t][i].is_duplex
             /\ sink[t][i].idx = 2
             /\ sink[t][i].arr = 0
             /\ sink[t][i].subread_id = fam[t].split

\* C9: when a group reaches split_count with an expected duplex count of 0, the
\* worker sends exactly the fragments of the group at once, split_count
\* unchanged, without marking the tag and without the reconciliation loop.
C9_ImmediateEmission ==
    \A t \in Tags :
        ExpectedDuplex(t) = 0 =>
            /\ t \notin m_updated_read_tags
            /\ ~HasKey(m_full_subread_groups, t)
            /\ InCheckerHands(t) = {}
            /\ \A w \in Workers : ~(w_pc[w] \in {"full", "notify"} /\ w_msg[w].tag = t)
            /\ \A i \in 1..Len(sink[t]) :
                 sink[t][i] = [SimplexRead(fam, t, sink[t][i].idx) EXCEPT !.arr = sink[t][i].arr]
            /\ Cardinality(Keys(SeqToSet(sink[t]))) = Len(sink[t])
            /\ Cardinality(SimplexOf(Ingested(t))) = fam[t].split =>
                 /\ Keys(SeqToSet(sink[t]) \cup InWorkerHands(t)) = Keys(SimplexOf(Ingested(t)))
                 /\ Len(sink[t]) + Cardinality(InWorkerHands(t)) = fam[t].split

\* a two-fragment family sent by a worker while the reconciliation thread is
\* blocked in wait and another family is still waiting
C9_Witness ==
    \E t \in Tags :
        /\ ExpectedDuplex(t) = 0
        /\ fam[t].split = 2
        /\ Len(sink[t]) = 2
        /\ c_pc = "waiting"
        /\ m_full_subread_groups # EmptyMap

LedgerEmpty ==
    /\ m_subread_groups = EmptyMap
    /\ m_full_subread_groups = EmptyMap
    /\ m_duplex_reads = EmptyMap
    /\ m_updated_read_tags = {}

\* the node has been restarted and nothing has been pushed since
JustRestarted == restarts # <<>> /\ pushed = restarts[Len(restarts)]

\* C16: after the node has terminated and restart() has been called the ledger
\* is empty: no simplex group, waiting group, duplex list or dirty tag of the
\* previous run is there for the reads of the new input stream.
C16_LedgerEmptyAfterRestart == JustRestarted => LedgerEmpty

RestartStep == Len(restarts') = Len(restarts) + 1

C18_WrongKindIsFatal ==
    \A w \in Workers : ~(w_msg[w] = OtherMessage /\ w_pc[w] = "pop")

\* C19: no thread holds a lock on a shared structure across expensive or
\* blocking work: an encoder worker holds m_read_cache_mutex only inside the
\* cache critical section (not while encoding, pushing or popping), a tagger
\* worker holds no mutex while it sends a group, and check_duplex_thread does
\* not hold m_duplex_reads_mutex while it sends a family.
C19_NoLockAcrossWork ==
    /\ \A w \in Workers : e_pc[w] # "cache" => m_read_cache_mutex # w
    /\ \A w \in Workers :
         w_pc[w] = "send" => (m_subread_groups_mutex # w /\ m_duplex_reads_mutex # w)
    /\ c_pc = "emit" => m_duplex_reads_mutex # CheckerId

\* a worker sends a group while check_duplex_thread sends a family
C19_Witness ==
    /\ \E w \in Workers : w_pc[w] = "send"
    /\ c_pc = "emit"
    /\ c_dup # <<>>

\* C20: the tag of a completed family leaves m_full_subread_groups and
\* m_duplex_reads in one step of check_duplex_thread, taken with
\* m_duplex_reads_mutex held, so no thread sees one entry without the other;
\* an extracted family never enters the maps again, so it is extracted once.
C20_FamilyExtractedAtomicallyOnce ==
    /\ [](c_pc \in {"pred", "block", "work"} <=> m_duplex_reads_mutex = CheckerId)
    /\ [][\A t \in Tags :
            /\ (HasKey(m_full_subread_groups, t) /\ ~HasKey(m_full_subread_groups', t))
                 <=> (HasKey(m_duplex_reads, t) /\ ~HasKey(m_duplex_reads', t))
            /\ (HasKey(m_full_subread_groups, t) /\ ~HasKey(m_full_subread_groups', t))
                 => /\ c_pc = "work"
                    /\ m_duplex_reads_mutex = CheckerId
                    /\ CompleteInLedger(t)
                    /\ sink[t] = <<>>
                    /\ Keys(InCheckerHands(t)') = Keys(Ingested(t))
            /\ (~HasKey(m_full_subread_groups, t) /\ HasKey(m_full_subread_groups', t))
                 => (sink[t] = <<>> /\ InCheckerHands(t) = {})]_vars

\* a family extracted from both maps while a worker is about to buffer a duplex
\* read of another tag
C20_Witness ==
    \E t \in Tags :
        /\ InCheckerHands(t) # {}
        /\ ~HasKey(m_full_subread_groups, t)
        /\ ~HasKey(m_duplex_reads, t)
        /\ \E w \in Workers : w_pc[w] = "have" /\ w_msg[w].is_duplex /\ w_msg[w].tag # t

\* C21: in what the node sends for a family, every simplex fragment comes
\* before every duplex read, whatever the order in which a worker ingested
\* them.
C21_SimplexBeforeDuplex ==
    \A t \in Tags :
        \A i, j \in 1..Len(sink[t]) :
            (i < j /\ sink[t][i].is_duplex) => sink[t][j].is_duplex

\* a family sent whole, one fragment of which was ingested after a duplex read
\* of the family
C21_Witness ==
    \E t \in Tags :
        /\ FullyEmitted(t)
        /\ \E i, j \in 1..Len(sink[t]) :
             /\ ~sink[t][i].is_duplex
             /\ sink[t][i].arr > 0
             /\ sink[t][j].is_duplex

\* C22: the input queue of a node never holds more messages than its capacity;
\* a message enters a queue only when the queue is below its capacity, so a
\* pusher that finds the queue full waits for a pop.
C22_QueueWithinCapacity ==
    /\ [](Len(in_queue) <= QueueCap /\ Len(e_queue) <= QueueCap)
    /\ [][/\ Len(in_queue') > Len(in_queue) => Len(in_queue) < QueueCap
          /\ Len(e_queue') > Len(e_queue) => Len(e_queue) < QueueCap]_vars

\* the input queue is full while a worker is busy with a message, and the
\* upstream has a further read to push: it is stalled
C22_Witness ==
    /\ Len(in_queue) = QueueCap
    /\ ~in_terminated
    /\ \E w \in Workers : w_pc[w] \notin {"pop", "done"}
    /\ Cardinality(pushed) < MaxReads
    /\ AllReads(fam) \ pushed # {}

EncoderLoopLeft(w) == e_pc[w] \in {"decrement", "terminate", "done"}

\* C23: a worker leaves its loop only from a pop that finds the queue
\* terminated and empty, and that pop does not block; the messages that were
\* in the queue when it was terminated are popped first, so none is left when
\* the workers are gone.
C23_ExhaustedAfterDrain ==
    /\ [](\A w \in Workers :
            /\ (w_pc[w] = "pop" /\ in_terminated /\ in_queue = <<>>)
                 => ENABLED WorkerExit(w)
            /\ (e_pc[w] = "pop" /\ e_terminated /\ e_queue = <<>>)
                 => ENABLED EncLeaveLoop(w))
    /\ [][\A w \in Workers :
            /\ (w_pc[w] # "done" /\ w_pc'[w] = "done")
                 => (w_pc[w] = "pop" /\ in_terminated /\ in_queue = <<>>)
            /\ (~EncoderLoopLeft(w) /\ EncoderLoopLeft(w)')
                 => (e_pc[w] = "pop" /\ e_terminated /\ e_queue = <<>>)]_vars
    /\ []((\E w \in Workers : w_pc[w] = "done") => in_queue = <<>>)
    /\ []((\E w \in Workers : EncoderLoopLeft(w)) => e_queue = <<>>)

\* the queue was terminated while full, with every worker about to pop
C23_Witness ==
    /\ in_terminated
    /\ Len(in_queue) = QueueCap
    /\ \A w \in Workers : w_pc[w] = "pop"

WorkerTerminates ==
    { i \in LogIndexes("terminate") : sink_log[i].by = "worker" }

\* C24: m_num_worker_threads is NumWorkers minus the workers that have passed
\* their decrement, so every worker decrements it once and it is never
\* negative; once 0 it stays 0; a worker calls m_sink.terminate() only when its
\* decrement gave 0, when every worker has left the loop and decremented; the
\* workers call it at most once, and once when all are done.
C24_ActiveWorkerCounter ==
    /\ [](m_num_worker_threads =
             NumWorkers - Cardinality({ w \in Workers : e_pc[w] \in {"terminate", "done"} }))
    /\ [](m_num_worker_threads >= 0)
    /\ [][m_num_worker_threads = 0 => m_num_worker_threads' = 0]_vars
    /\ [][\A w \in Workers :
            (e_pc[w] # "terminate" /\ e_pc'[w] = "terminate") =>
                /\ m_num_worker_threads' = 0
                /\ m_num_worker_threads = 1
                /\ \A v \in Workers : e_pc'[v] \in {"terminate", "done"}]_vars
    /\ [](Cardinality(WorkerTerminates) <= 1)
    /\ [](WorkerTerminates # {} => m_num_worker_threads = 0)
    /\ []((\A w \in Workers : e_pc[w] = "done") => Cardinality(WorkerTerminates) = 1)

\* every worker has exited, the last one closed the sink after a merged record
\* had been pushed
C24_Witness ==
    /\ \A w \in Workers : e_pc[w] = "done"
    /\ m_num_worker_threads = 0
    /\ WorkerTerminates # {}
    /\ LogIndexes("push") # {}

\* the reads the sink of DuplexReadTaggingNode has received
Received == { messages[i] : i \in 1..Len(messages) }

\* a duplex read naming the read as a parent has been pushed
OffspringPushed(read_id) ==
    \E d \in dt_pushed : d.is_duplex /\ read_id \in ParentIds(d.read_id)

Handles == 1..Len(g_nodes)

SinksOf(n) == { e[2] : e \in { x \in g_edges : x[1] = n } }

SourcesOf(n) == { e[1] : e \in { x \in g_edges : x[2] = n } }

RECURSIVE Closure(_)
\* the nodes of S and the nodes reachable from them
Closure(S) ==
    LET T == S \cup UNION { SinksOf(n) : n \in S }
    IN IF T = S THEN S ELSE Closure(T)

Acyclic == \A n \in Handles : n \notin Closure(SinksOf(n))

\* the nodes that feed a node and are fed by none
Roots == { n \in Handles : SinksOf(n) # {} /\ SourcesOf(n) = {} }

RECURSIVE KindsFrom(_, _)
\* the kinds of the nodes met from n on, following at each node one of its sinks
KindsFrom(n, fuel) ==
    IF fuel = 0 \/ SinksOf(n) = {}
    THEN <<g_nodes[n]>>
    ELSE <<g_nodes[n]>> \o KindsFrom(CHOOSE s \in SinksOf(n) : TRUE, fuel - 1)

NodeOfKind(kind) == CHOOSE n \in Handles : g_nodes[n] = kind

Opt(present, kind) == IF present THEN <<kind>> ELSE <<>>

SingleChain(kinds) ==
    /\ Cardinality(Roots) = 1
    /\ \A n \in Handles : Cardinality(SinksOf(n)) <= 1 /\ Cardinality(SourcesOf(n)) <= 1
    /\ \A r \in Roots : KindsFrom(r, Len(g_nodes)) = kinds
    /\ Cardinality(g_edges) = Len(kinds) - 1

ExpectedStereoDuplexChain ==
    Opt(g_args.source_node_handle # InvalidNodeHandle, "Source")
    \o <<"ScalerNode", "BasecallerNode", "ReadSplitNode:DuplexReadSplitter", "PairingNode",
         "StereoDuplexEncoderNode", "StereoBasecallerNode">>
    \o Opt(g_args.modbase_runners, "ModBaseCallerNode")
    \o Opt(g_args.sink_node_handle # InvalidNodeHandle, "Sink")

\* C26: the graph create_stereo_duplex_pipeline builds is acyclic at every
\* step and, when the builder returns, is the single chain [source,] scaler,
\* basecaller, splitter, pairing, stereo encoder, stereo basecaller [, modbase
\* caller] [, sink]: every node added is reachable from the scaler, every sink
\* named when a node is added was added before the node, and the caller's sink
\* is fed by the modbase caller when there is one, by the stereo basecaller
\* otherwise.
C26_StereoDuplexGraph ==
    g_fn = "create_stereo_duplex_pipeline" =>
        /\ Acyclic
        /\ \A e \in g_edges :
             (e[1] > Len(InitialNodes) /\ g_nodes[e[2]] \notin {"ModBaseCallerNode", "Sink"})
                 => e[2] < e[1]
        /\ g_pc = "done" =>
             /\ SingleChain(ExpectedStereoDuplexChain)
             /\ \A n \in Handles :
                  n > Len(InitialNodes) => n \in Closure({NodeOfKind("ScalerNode")})
             /\ g_args.sink_node_handle # InvalidNodeHandle =>
                  SourcesOf(g_args.sink_node_handle) =
                      {NodeOfKind(IF g_args.modbase_runners
                                  THEN "ModBaseCallerNode" ELSE "StereoBasecallerNode")}

\* the builder has returned, called with modbase runners, a source and a sink
C26_Witness ==
    /\ g_fn = "create_stereo_duplex_pipeline"
    /\ g_pc = "done"
    /\ g_args.modbase_runners
    /\ g_args.source_node_handle # InvalidNodeHandle
    /\ g_args.sink_node_handle # InvalidNodeHandle
    /\ Cardinality(g_edges) = Len(g_nodes) - 1

ExpectedSimplexChain ==
    Opt(g_args.source_node_handle # InvalidNodeHandle, "Source")
    \o Opt(g_args.enable_read_splitter /\ g_args.is_rna, "ReadSplitNode:RNAReadSplitter")
    \o <<"ScalerNode", "BasecallerNode">>
    \o Opt(g_args.enable_read_splitter /\ ~g_args.is_rna, "ReadSplitNode:DuplexReadSplitter")
    \o Opt(g_args.modbase_runners, "ModBaseCallerNode")
    \o Opt(g_args.sink_node_handle # InvalidNodeHandle, "Sink")

\* C27: the graph create_simplex_pipeline builds is acyclic at every step and,
\* when the builder returns, is the single chain [source,] [RNA splitter,]
\* scaler, basecaller [, DNA splitter] [, modbase caller] [, sink]: a read
\* splitter is there only when enabled, the source feeds the first node of the
\* chain and the sink is fed by the last.
C27_SimplexGraph ==
    g_fn = "create_simplex_pipeline" =>
        /\ Acyclic
        /\ g_pc = "done" =>
             /\ SingleChain(ExpectedSimplexChain)
             /\ ~g_args.enable_read_splitter =>
                  \A n \in Handles : g_nodes[n] \notin {"ReadSplitNode:RNAReadSplitter",
                                                         "ReadSplitNode:DuplexReadSplitter"}
             /\ g_args.source_node_handle # InvalidNodeHandle =>
                  SinksOf(g_args.source_node_handle) = {g_h.first_node_handle}
             /\ g_args.sink_node_handle # InvalidNodeHandle =>
                  /\ SourcesOf(g_args.sink_node_handle) = {g_h.last_node_handle}
                  /\ g_h.last_node_handle = Len(g_nodes)

\* the builder has returned, called for an RNA model with the read splitter
\* enabled, modbase runners, a source and a sink
C27_Witness ==
    /\ g_fn = "create_simplex_pipeline"
    /\ g_pc = "done"
    /\ g_args.enable_read_splitter
    /\ g_args.is_rna
    /\ g_args.modbase_runners
    /\ g_args.source_node_handle # InvalidNodeHandle
    /\ g_args.sink_node_handle # InvalidNodeHandle
    /\ Cardinality(g_edges) = Len(g_nodes) - 1

\* C28: terminate_impl returns: once it has stored m_terminate,
\* check_duplex_thread exits and the join on it returns, whatever the
\* interleaving of the store and the notification with the predicate check
\* and the wait of check_duplex_thread.
C28_TerminateImplReturns == m_terminate ~> (c_pc = "done" /\ t_pc = "terminated")

\* what the workers put into the ledger: entries of the three maps and dirty
\* tags
LedgerAdditions ==
    \/ \E t \in Tags :
         \/ Len(Lookup(m_subread_groups', t, <<>>)) > Len(Lookup(m_subread_groups, t, <<>>))
         \/ Len(Lookup(m_duplex_reads', t, <<>>)) > Len(Lookup(m_duplex_reads, t, <<>>))
         \/ (HasKey(m_full_subread_groups', t) /\ ~HasKey(m_full_subread_groups, t))
    \/ ~(m_updated_read_tags' \subseteq m_updated_read_tags)

\* C29: m_terminate is set only when the input queue is terminated and every
\* worker has been joined; so nothing is added to the ledger once it is set,
\* and once terminate_impl has returned the ledger and the sink stay as they are.
C29_StopAfterWorkersJoined ==
    /\ [][(~m_terminate /\ m_terminate') =>
            (in_terminated /\ in_queue = <<>> /\ \A w \in Workers : w_pc[w] = "done")]_vars
    /\ [](m_terminate => \A w \in Workers : w_pc[w] = "done")
    /\ [][m_terminate => ~LedgerAdditions]_vars
    /\ [][t_pc = "terminated" =>
            /\ sink' = sink
            /\ UNCHANGED <<m_subread_groups, m_full_subread_groups, m_duplex_reads,
                           m_updated_read_tags>>]_vars

\* terminate_impl has returned; a worker had sent a group to the sink, and
\* fragments a worker buffered are still in the ledger
C29_Witness ==
    /\ t_pc = "terminated"
    /\ m_terminate
    /\ m_subread_groups # EmptyMap
    /\ \E t \in Tags : sink[t] # <<>>

\* C30: no thread holds m_subread_groups_mutex and m_duplex_reads_mutex
\* together: a worker about to lock m_duplex_reads_mutex has released
\* m_subread_groups_mutex, check_duplex_thread never takes
\* m_subread_groups_mutex, and the holder of m_duplex_reads_mutex is never
\* one that waits for the other mutex.
C30_LedgerLocksNeverNested ==
    /\ \A thread \in Workers \cup {CheckerId} :
         ~(m_subread_groups_mutex = thread /\ m_duplex_reads_mutex = thread)
    /\ \A w \in Workers :
         w_pc[w] \in {"full", "notify"} => m_subread_groups_mutex # w
    /\ m_subread_groups_mutex # CheckerId
    /\ m_duplex_reads_mutex # 0 =>
         (m_duplex_reads_mutex = CheckerId /\ c_pc \in {"pred", "block", "work"})

\* a worker is about to lock m_duplex_reads_mutex for a full group while
\* check_duplex_thread holds it and another worker is about to lock
\* m_subread_groups_mutex
C30_Witness ==
    /\ \E w \in Workers : w_pc[w] = "full"
    /\ m_duplex_reads_mutex = CheckerId
    /\ \E v \in Workers : w_pc[v] = "have" /\ ~w_msg[v].is_duplex

(***************************************************************************)
(* Conservation of reads in SubreadTaggerNode.                             *)
(***************************************************************************)
\* a record is identified by its source read, its kind and its number
ReadIdOf(r) == <<r.family, r.is_duplex, r.idx>>

Occurrences(q, id) == Cardinality({ i \in 1..Len(q) : ReadIdOf(q[i]) = id })

\* the number of places that hold the record id: the input queue, a worker
\* that has popped it, a simplex group, an extracted group in a worker's hands,
\* a waiting group, a duplex list, the reconciliation thread's hands, the sink
Places(id) ==
    LET InWorker(w) ==
            (IF w_pc[w] = "have" /\ ReadIdOf(w_msg[w]) = id THEN 1 ELSE 0)
            + (IF w_pc[w] \in {"send", "full"} THEN Occurrences(w_ext[w], id) ELSE 0)
        InLedger(t) ==
            Occurrences(Lookup(m_subread_groups, t, <<>>), id)
            + (IF HasKey(m_full_subread_groups, t)
               THEN Occurrences(m_full_subread_groups[t].subreads, id) ELSE 0)
            + Occurrences(Lookup(m_duplex_reads, t, <<>>), id)
    IN Occurrences(in_queue, id)
       + SeqSum([w \in Workers |-> InWorker(w)])
       + SeqSum([t \in Tags |-> InLedger(t)])
       + Occurrences(c_sub, id) + Occurrences(c_dup, id)
       + SeqSum([t \in Tags |-> Occurrences(sink[t], id)])

AllReadIds == { ReadIdOf(r) : r \in AllReads(fam) }

\* C31: every read the upstream has pushed is in exactly one place of the node
\* (queue, worker, simplex group, waiting group, duplex list, the hands of the
\* thread that moves or emits it, sink), and a read that was not pushed is in
\* none: no read is emitted twice, invented, overwritten or lost.
C31_ReadsConserved ==
    \A id \in AllReadIds :
        Places(id) = IF id \in { ReadIdOf(r) : r \in pushed } THEN 1 ELSE 0

(***************************************************************************)
(* Frame of the emission by the reconciliation loop.                       *)
(***************************************************************************)
\* the record as the upstream pushed it
Original(r) ==
    IF r.is_duplex THEN WithTag(DuplexRead(r.family, r.idx), r.tag)
    ELSE WithTag(SimplexRead(fam, r.family, r.idx), r.tag)

SameExcept(r, fields) == \A f \in (DOMAIN r) \ fields : r[f] = Original(r)[f]

\* the records the node holds and has not sent
Buffered ==
    UNION { SeqToSet(Lookup(m_subread_groups, t, <<>>))
            \cup SeqToSet(Lookup(m_duplex_reads, t, <<>>))
            \cup (IF HasKey(m_full_subread_groups, t)
                  THEN SeqToSet(m_full_subread_groups[t].subreads) ELSE {}) : t \in Tags }
    \cup SeqToSet(c_sub) \cup SeqToSet(c_dup)
    \cup UNION { SeqToSet(w_ext[w]) : w \in Workers }

\* C32: an emitted simplex fragment differs from the pushed record in
\* split_count only (its subread_id is the pre-assigned one), an emitted duplex
\* read in split_count and subread_id only, every emitted record is in the sink
\* under its own tag, and the records that are still buffered, those of other
\* tags included, are as they were pushed.  (arr is a history field.)
C32_EmissionFrame ==
    /\ \A t \in Tags : \A i \in 1..Len(sink[t]) :
          LET r == sink[t][i]
          IN /\ r.tag = t
             /\ IF r.is_duplex
                THEN SameExcept(r, {"split_count", "subread_id", "arr"})
                ELSE SameExcept(r, {"split_count", "arr"})
    /\ \A r \in Buffered : SameExcept(r, {"arr"})

\* the family of tag 1 (two fragments, a duplex read) has been emitted with
\* rewritten split_count while a group of another tag waits in the ledger
C32_Witness ==
    /\ \E i \in 1..Len(sink[1]) :
          /\ ~sink[1][i].is_duplex
          /\ sink[1][i].idx = 2
          /\ sink[1][i].split_count = 3
    /\ \E j \in 1..Len(sink[1]) : sink[1][j].is_duplex
    /\ \E t \in Tags \ {1} : HasKey(m_full_subread_groups, t)

(***************************************************************************)
(* DataLoader::load_reads.                                                 *)
(***************************************************************************)
\* C33: whenever load_reads has been left, by return or by an exception, it
\* has called m_read_sink.terminate() exactly once.
C33_SinkTerminatedOnEveryExit ==
    dl_pc \in {"returned", "thrown"} => dl_terminated = 1

\* C34: with max_reads > 0 the number of reads pushed, m_loaded_read_count,
\* never exceeds max_reads (so no read is pushed once the limit is reached).
C34_LoadedWithinMaxReads ==
    dl_max_reads > 0 => m_loaded_read_count <= dl_max_reads

(***************************************************************************)
(* stereo_encode: the cursors of the column walk                            *)
(***************************************************************************)

\* C35: during the column walk the two signal cursors stay within the raw
\* signals of their reads and the output cursor within max_size, also at the
\* last base of a read
C35_CursorsWithinBuffers ==
    se_pc \in {"walk", "done"} =>
        /\ template_signal_cursor <= se_template_raw_size
        /\ complement_signal_cursor <= se_complement_raw_size
        /\ stereo_global_cursor <= se_template_raw_size + se_complement_raw_size

\* the move-table row of the output has a marker at every position of
\* se_markers that lies inside the row
RECURSIVE StrictlyIncreasing(_)
StrictlyIncreasing(s) ==
    \/ Len(s) <= 1
    \/ s[1] < s[2] /\ StrictlyIncreasing(Tail(s))

\* C36: every column walked writes one marker at its first output position
\* and moves the output cursor on by the larger of its two segment lengths,
\* at least 1; the markers are strictly increasing and as many as the columns;
\* the output is as long as the sum of the maxima; the target cursor moves on
\* every column but an insertion to the query, the query cursor on every
\* column but an insertion to the target
C36_OneMarkerPerColumn ==
    /\ se_column.number > 0 =>
          /\ se_markers[Len(se_markers)] = se_column.start_ts
          /\ se_column.start_ts < se_template_raw_size + se_complement_raw_size
          /\ stereo_global_cursor - se_column.start_ts >= 1
          /\ stereo_global_cursor - se_column.start_ts =
                IF se_column.template_segment_length >= se_column.complement_segment_length
                THEN se_column.template_segment_length
                ELSE se_column.complement_segment_length
          /\ target_cursor - se_column.target_cursor =
                IF se_column.op = kAlignInsertionToQuery THEN 0 ELSE 1
          /\ query_cursor - se_column.query_cursor =
                IF se_column.op = kAlignInsertionToTarget THEN 0 ELSE 1
    /\ Len(se_markers) = se_column.number
    /\ StrictlyIncreasing(se_markers)
    /\ se_pc = "done" => se_output_size = stereo_global_cursor

\* C38: a template base marks one of the rows 2..5 and a complement base one
\* of the rows 6..9, and the row of a base is the row of no other nucleotide
C38_OneRowPerNucleotide ==
    /\ se_column.number > 0 /\ se_column.op # kAlignInsertionToQuery =>
          /\ se_column.template_row \in 2..5
          /\ se_column.template_row - kFeatureTemplateFirstNucleotide \in 0..3
          /\ \A other \in Nucleotides \ {se_column.template_nucleotide} :
                kFeatureTemplateFirstNucleotide + nucleotide_feature_offset(CharCode(other))
                    # se_column.template_row
    /\ se_column.number > 0 /\ se_column.op # kAlignInsertionToTarget =>
          /\ se_column.complement_row \in 6..9
          /\ se_column.complement_row - kFeatureComplementFirstNucleotide \in 0..3
          /\ \A other \in Nucleotides \ {se_column.complement_nucleotide} :
                kFeatureComplementFirstNucleotide + nucleotide_feature_offset(CharCode(other))
                    # se_column.complement_row

\* a column with a template base T and a complement base G has been walked
C38_Witness ==
    /\ se_column.number > 0
    /\ se_column.op = kAlignMismatch
    /\ se_column.template_nucleotide = "T"
    /\ se_column.template_row = 5
    /\ se_column.complement_nucleotide = "G"
    /\ se_column.complement_row = 8

(***************************************************************************)
(* RemoraCaller::get_motif_hits                                             *)
(***************************************************************************)

\* the positions where the motif occurs in the sequence, in increasing order,
\* each moved by the motif offset
RECURSIVE HitsFrom(_)
HitsFrom(pos) ==
    IF pos > Len(mh_seq) - Len(mh_motif) THEN <<>>
    ELSE IF SubSeq(mh_seq, pos + 1, pos + Len(mh_motif)) = mh_motif
         THEN <<pos + mh_motif_offset>> \o HitsFrom(pos + 1)
         ELSE HitsFrom(pos + 1)

\* C37: get_motif_hits returns for every sequence and motif, and what it
\* returns is p + motif_offset for every position p where the motif occurs,
\* in increasing order, each once
C37_MotifHits ==
    /\ <>(mh_pc = "returned")
    /\ [](mh_pc = "returned" => context_hits = HitsFrom(0))

\* returned with two occurrences that overlap
C37_Witness ==
    /\ mh_pc = "returned"
    /\ mh_motif = <<"A", "A">>
    /\ mh_seq = <<"C", "A", "A", "A">>
    /\ mh_motif_offset = 1
    /\ context_hits = <<2, 3>>

\* returned for a sequence that is shorter than the motif
C37_WitnessShort ==
    /\ mh_pc = "returned"
    /\ Len(mh_seq) + 1 < Len(mh_motif)

====
